---------------------------- MODULE Spec2Model ----------------------------
(***************************************************************************)
(* Model of the sede backend: the sede_statuses table (the event ledger),  *)
(* the HTTP handlers of internal/app (toggleStatus, getStatus, getStats,   *)
(* getSpaceAPI) and the repository functions of internal/database they     *)
(* call.                                                                   *)
(*                                                                         *)
(* Time is discrete.  One tick of the wall clock is 15 seconds, so         *)
(* time.Minute is 4 ticks and the 30 second context timeout is 2 ticks.    *)
(* Tick 0 is the zero time.Time (the Timestamp of a zero SedeStatus).      *)
(***************************************************************************)
EXTENDS Integers, Sequences, FiniteSets, TLC

(***************************************************************************)
(* Bounds of the model.                                                    *)
(***************************************************************************)
\* most rows the table may hold
MaxEvents == 3
\* most rows a table may hold when the statistics are computed from it
MaxRows == 3
\* number of ticks the wall clock may advance after start
Horizon == 8
\* most requests of one client, in one window, after its budget is used up
MaxRejected == 2
\* most origins in the value of the flag allowed-origins
MaxOrigins == 2

(***************************************************************************)
(* Program constants, in ticks of 15 seconds.                              *)
(***************************************************************************)
\* cooldownPeriod = time.Minute
cooldownPeriod == 4
\* contextTimeout = 30 * time.Second
contextTimeout == 2
\* rateLimitRequests = 100
rateLimitRequests == 100
\* rateLimitDuration = time.Minute
rateLimitDuration == 4

\* the goroutines that serve requests concurrently
Workers == {1, 2}

\* the zero time.Time
ZeroTime == 0
\* The process starts long after the zero time: any start later than
\* ZeroTime + cooldownPeriod keeps time.Since(zero) >= cooldownPeriod.
StartTime == ZeroTime + cooldownPeriod + 1
MaxTime == StartTime + Horizon

\* config.APIKey and the X-API-KEY header values a client may present
APIKey == "test-api-key-123456"
Keys == {"", "invalid-key", APIKey}

\* request bodies of POST /toggle: not JSON, {} and {cardId, hash} both set
Bodies == {"invalid json", "{}", "{cardId,hash}"}

VARIABLES
    sede_statuses,  \* the table: sequence of SedeStatus rows in insertion order
    clock,          \* the wall clock (time.Now)
    pc,             \* pc[w]: position of worker w in its handler
    req,            \* req[w]: the request worker w is serving (or served last)
    ctx,            \* ctx[w]: time at which the handler's context was created
    currentStatus,  \* currentStatus[w]: result of GetLatestStatus
    err,            \* err[w]: error returned by the last repository call
    elapsed,        \* elapsed[w]: value of time.Since(currentStatus.Timestamp)
    cardName,       \* cardName[w]: outcome of the card manager lookup
    newStatus,      \* newStatus[w]: the row the handler is about to create
    dailyStats,     \* dailyStats[w]: rows of the first query of GetWeeklyStats
    resp,           \* resp[w]: HTTP response written for req[w]
    readLen,        \* history: rows in the table when GetLatestStatus
                    \* succeeded for req[w] (-1: it has not)
    created,        \* history: ids of the rows req[w] has inserted
    appendLog,      \* history: appendLog[id] describes the toggle that
                    \* inserted row id: whether it arrived at least
                    \* cooldownPeriod after the timestamp of the row inserted
                    \* before, how many rows the table held when it read the
                    \* latest row, and the state it returned to its caller
    config,         \* the Config the process was started with (a.config)
    notifications,  \* the goroutines started to send a Telegram message
    statistics,     \* what the last call of Repository.GetStatistics returned
    rateLimiter,    \* the limiter's store: rateLimiter[key] is the count of
                    \* the requests of the window of key and the time at
                    \* which that window ends
    runServer,      \* the call runServer is at, or has to make next
    esphome,        \* the button: its global sede_state, what rgb_light
                    \* shows, and the position of its automation on_press
    shutdown        \* the goroutine runServer starts to wait for a signal:
                    \* its position, the time srv.Shutdown was called and
                    \* the error srv.Shutdown returned

vars == <<sede_statuses, clock, pc, req, ctx, currentStatus, err, elapsed,
          cardName, newStatus, dailyStats, resp, readLen, created, appendLog,
          config, notifications, statistics, rateLimiter, runServer, esphome, shutdown>>

locals == <<currentStatus, err, elapsed, cardName, newStatus, dailyStats>>

(***************************************************************************)
(* internal/database                                                       *)
(***************************************************************************)
\* var status SedeStatus
ZeroStatus == [ID |-> 0, IsOpen |-> FALSE, Timestamp |-> ZeroTime]

\* mutant: the row inserted last comes first, whatever its timestamp
RowBefore_ById(a, b) == a.ID > b.ID

\* ORDER BY timestamp desc, id: First() appends the primary key to the order
RowBefore(a, b) ==
    \/ a.Timestamp > b.Timestamp
    \/ a.Timestamp = b.Timestamp /\ a.ID < b.ID

\* Order("timestamp desc").First(&status): scan the rows, keep the first in order
RECURSIVE FirstRow(_, _)
FirstRow(rows, best) ==
    IF rows = <<>> THEN best
    ELSE FirstRow(Tail(rows),
                  IF RowBefore(Head(rows), best) THEN Head(rows) ELSE best)

GetLatestStatus(table) ==
    IF table = <<>>
    THEN [status |-> ZeroStatus, err |-> "ErrRecordNotFound"]
    ELSE [status |-> FirstRow(Tail(table), Head(table)), err |-> "nil"]

\* primary key assigned by the store on insert
NextID(table) == Len(table) + 1

\* mutant: Save() on the latest row, which overwrites it
CreateStatus_Save(table, status) ==
    IF table = <<>> THEN <<[status EXCEPT !.ID = 1]>>
    ELSE [table EXCEPT ![Len(table)] = [status EXCEPT !.ID = Len(table)]]

\* Db.Create(&status): insert one row with a fresh primary key
CreateStatus(table, status) ==
    Append(table, [status EXCEPT !.ID = NextID(table)])

\* calendar arithmetic on ticks (tick 0 is Monday 0001-01-01 00:00 UTC)
TicksPerHour == 60 * cooldownPeriod
TicksPerDay == 24 * TicksPerHour

\* strftime('%w', timestamp): 0 = Sunday ... 6 = Saturday
Weekday(t) == (1 + (t \div TicksPerDay)) % 7

\* CAST(strftime('%H', timestamp) as integer)
HourOf(t) == (t \div TicksPerHour) % 24

\* strftime('%H', timestamp)
HourNames == <<"00", "01", "02", "03", "04", "05", "06", "07", "08", "09",
               "10", "11", "12", "13", "14", "15", "16", "17", "18", "19",
               "20", "21", "22", "23">>

\* CASE strftime('%w', timestamp) WHEN '0' THEN 'Sunday' ... ELSE 'Saturday'
daysOrder == <<"Sunday", "Monday", "Tuesday", "Wednesday", "Thursday",
               "Friday", "Saturday">>

\* date('now', '-N days'): midnight of the day N days before today
DateNowMinus(now, days) == (now \div TicksPerDay - days) * TicksPerDay

RECURSIVE Gcd(_, _)
Gcd(a, b) == IF b = 0 THEN a ELSE Gcd(b, a % b)

\* mutant: the two branches of the CASE are exchanged
Avg_Inverted(rows) ==
    LET n == Cardinality({r \in rows : ~r.IsOpen})
        d == Cardinality(rows)
        g == Gcd(n, d)
    IN <<n \div g, d \div g>>

\* AVG(CASE WHEN is_open THEN 1.0 ELSE 0.0 END) over a non-empty set of rows,
\* as the fraction in lowest terms that the float64 result denotes
Avg(rows) ==
    LET n == Cardinality({r \in rows : r.IsOpen})
        d == Cardinality(rows)
        g == Gcd(n, d)
    IN <<n \div g, d \div g>>

Rows(table) == {table[i] : i \in 1..Len(table)}

\* mutant: the query has no WHERE clause
WeeklyWindow_All(table, now) == Rows(table)

\* WHERE timestamp >= date('now', '-90 days')
WeeklyWindow(table, now) ==
    {r \in Rows(table) : r.Timestamp >= DateNowMinus(now, 90)}

\* ORDER BY: the integers of S in ascending order
RECURSIVE SortAsc(_)
SortAsc(S) ==
    IF S = {} THEN <<>>
    ELSE LET m == CHOOSE x \in S : \A y \in S : x <= y
         IN <<m>> \o SortAsc(S \ {m})

\* first query of GetWeeklyStats: GROUP BY day ORDER BY strftime('%w', timestamp)
DailyQuery(table, now) ==
    LET win == WeeklyWindow(table, now)
        order == SortAsc({Weekday(r.Timestamp) : r \in win})
    IN [i \in 1..Len(order) |->
          [Day |-> daysOrder[order[i] + 1],
           DailyProbability |->
               Avg({r \in win : Weekday(r.Timestamp) = order[i]})]]

\* mutant: the hours run to 22
HourlyQuery_To22(table, now) ==
    LET win == {r \in WeeklyWindow(table, now) :
                   HourOf(r.Timestamp) >= 9 /\ HourOf(r.Timestamp) <= 22}
        Group(r) == Weekday(r.Timestamp) * 24 + HourOf(r.Timestamp)
        order == SortAsc({Group(r) : r \in win})
    IN [i \in 1..Len(order) |->
          [Day |-> daysOrder[(order[i] \div 24) + 1],
           Hour |-> HourNames[(order[i] % 24) + 1],
           Probability |-> Avg({r \in win : Group(r) = order[i]})]]

\* second query: hours 9..21, GROUP BY day, hour ORDER BY weekday, hour
HourlyQuery(table, now) ==
    LET win == {r \in WeeklyWindow(table, now) :
                   HourOf(r.Timestamp) >= 9 /\ HourOf(r.Timestamp) <= 21}
        Group(r) == Weekday(r.Timestamp) * 24 + HourOf(r.Timestamp)
        order == SortAsc({Group(r) : r \in win})
    IN [i \in 1..Len(order) |->
          [Day |-> daysOrder[(order[i] \div 24) + 1],
           Hour |-> HourNames[(order[i] % 24) + 1],
           Probability |-> Avg({r \in win : Group(r) = order[i]})]]

\* weeklyMap: the daily rows, then the hourly rows appended to their day
\* (or a new entry with DailyProbability 0 when the day has no daily row)
RECURSIVE MergeHourly(_, _)
MergeHourly(weeklyMap, hourly) ==
    IF hourly = <<>> THEN weeklyMap
    ELSE LET hs == Head(hourly)
             h == [Hour |-> hs.Hour, Probability |-> hs.Probability]
         IN MergeHourly(
              IF hs.Day \in DOMAIN weeklyMap
              THEN [weeklyMap EXCEPT ![hs.Day].Hourly = Append(@, h)]
              ELSE [d \in DOMAIN weeklyMap \cup {hs.Day} |->
                      IF d = hs.Day
                      THEN [Day |-> hs.Day, DailyProbability |-> <<0, 1>>,
                            Hourly |-> <<h>>]
                      ELSE weeklyMap[d]],
              Tail(hourly))

\* mutant: each entry is put before the ones already collected
RECURSIVE InDaysOrder_Prepend(_, _)
InDaysOrder_Prepend(weeklyMap, i) ==
    IF i > Len(daysOrder) THEN <<>>
    ELSE InDaysOrder_Prepend(weeklyMap, i + 1)
         \o (IF daysOrder[i] \in DOMAIN weeklyMap
             THEN <<weeklyMap[daysOrder[i]]>> ELSE <<>>)

\* the entries of weeklyMap in the order of daysOrder
RECURSIVE InDaysOrder(_, _)
InDaysOrder(weeklyMap, i) ==
    IF i > Len(daysOrder) THEN <<>>
    ELSE (IF daysOrder[i] \in DOMAIN weeklyMap
          THEN <<weeklyMap[daysOrder[i]]>> ELSE <<>>)
         \o InDaysOrder(weeklyMap, i + 1)

\* mutant: a weekday without rows is reported with no probability
MergeWeekly_AllDays(daily, hourly) ==
    LET names == {daily[i].Day : i \in 1..Len(daily)}
    IN [i \in 1..Len(daysOrder) |->
          IF daysOrder[i] \in names
          THEN LET ds == daily[CHOOSE k \in 1..Len(daily) :
                                  daily[k].Day = daysOrder[i]]
               IN [Day |-> ds.Day, DailyProbability |-> ds.DailyProbability,
                   Hourly |-> <<>>]
          ELSE [Day |-> daysOrder[i], DailyProbability |-> <<0, 1>>,
                Hourly |-> <<>>]]

\* lines 161-190 of GetWeeklyStats, from the rows of the two queries
MergeWeekly(daily, hourly) ==
    LET names == {daily[i].Day : i \in 1..Len(daily)}
        weeklyMap == [d \in names |->
            LET ds == daily[CHOOSE i \in 1..Len(daily) : daily[i].Day = d]
            IN [Day |-> ds.Day, DailyProbability |-> ds.DailyProbability,
                Hourly |-> <<>>]]
    IN InDaysOrder(MergeHourly(weeklyMap, hourly), 1)

\* statsDateLayout = "2006-01-02", analysisDays = 30
statsDateLayout == "2006-01-02"
analysisDays == 30

\* strftime(format, timestamp), as the number of the day (day 0 is
\* 0001-01-01) whose date the returned text is: '%Y-%m-%d' gives the date of
\* the timestamp; a format without % is returned as it is, and the text
\* 2006-01-02 is the date of day 732312
Strftime(format, t) ==
    IF format = "%Y-%m-%d" THEN t \div TicksPerDay ELSE 732312

\* n * 1.0 / d, as the fraction in lowest terms that the result denotes
Ratio(n, d) == LET g == Gcd(n, d) IN <<n \div g, d \div g>>

\* WHERE timestamp >= date('now', '-30 days')
StatisticsWindow(table, now) ==
    {r \in Rows(table) : r.Timestamp >= DateNowMinus(now, analysisDays)}

\* mutant: only the rows of the last 30 days are counted
Count_Window(table) == Cardinality(StatisticsWindow(table, clock))

\* tx.Model(&SedeStatus{}).Count(&totalChanges)
Count(table) == Len(table)

\* mutant: the rows are appended to the ones the call before returned
GetStatistics_Accumulate(table, now) ==
    LET win == StatisticsWindow(table, now)
        Date(r) == Strftime(statsDateLayout, r.Timestamp)
        order == SortAsc({Date(r) : r \in win})
    IN statistics.dailyStats \o
       [i \in 1..Len(order) |->
          [Date |-> order[i],
           Probability |->
               Ratio(Cardinality({r \in win : Date(r) = order[i]}),
                     analysisDays)]]

\* the rows of the query of GetStatistics: GROUP BY date ORDER BY date
GetStatistics(table, now) ==
    LET win == StatisticsWindow(table, now)
        Date(r) == Strftime(statsDateLayout, r.Timestamp)
        order == SortAsc({Date(r) : r \in win})
    IN [i \in 1..Len(order) |->
          [Date |-> order[i],
           Probability |->
               Ratio(Cardinality({r \in win : Date(r) = order[i]}),
                     analysisDays)]]

\* what a call to the repository returns
DbErrorKinds == {"nil", "storage error", "DeadlineExceeded"}

\* Outcome of a repository call made with the handler's context: it fails
\* with DeadlineExceeded once the context has expired, and may fail with a
\* storage error at any time.
DbErrors(w) ==
    IF clock - ctx[w] >= contextTimeout THEN {"DeadlineExceeded"}
    ELSE {"nil", "storage error"}

(***************************************************************************)
(* internal/app: helpers                                                   *)
(***************************************************************************)
NoResp == [code |-> 0, body |-> "none"]

\* fmt.Sprintf("%v", status.IsOpen)
FormatBool(b) == IF b THEN "true" ELSE "false"

\* mutant: a missing row is not an error
handleDatabaseError_NotFoundOk(e) ==
    IF e \in {"nil", "ErrRecordNotFound"} THEN 0
    ELSE IF e = "DeadlineExceeded" THEN 504
    ELSE 500

\* mutant: an exceeded deadline is reported like any other error
handleDatabaseError_AllInternal(e) == IF e = "nil" THEN 0 ELSE 500

\* the status code handleDatabaseError aborts with (0: no error, continue)
handleDatabaseError(e) ==
    IF e = "nil" THEN 0
    ELSE IF e = "DeadlineExceeded" THEN 504
    ELSE 500

DatabaseErrorResp(e) ==
    [code |-> handleDatabaseError(e),
     body |-> IF e = "DeadlineExceeded"
              THEN [error |-> "Database operation timed out"]
              ELSE [error |-> "Internal server error"]]

\* bcrypt.GenerateFromPassword: the hash is determined by the password (and
\* a salt kept in the hash); it is not the password
GenerateFromPassword(password) == [bcrypt |-> password]

\* bcrypt.CompareHashAndPassword(hash, password) == nil
CompareHashAndPassword(hash, password) == hash = GenerateFromPassword(password)

\* subtle.ConstantTimeCompare(x, y)
ConstantTimeCompare(x, y) == IF x = y THEN 1 ELSE 0

\* a.apiKeyHash, set by initSecurity in the hashed mode only
apiKeyHash ==
    IF config.HashAPIKey THEN GenerateFromPassword(config.APIKey) ELSE [bcrypt |-> <<>>]

\* mutant: the check for a missing header is dropped
authMiddleware_NoEmptyCheck(apiKey) ==
    IF config.HashAPIKey
    THEN CompareHashAndPassword(apiKeyHash, apiKey)
    ELSE ConstantTimeCompare(apiKey, config.APIKey) = 1

\* authMiddleware: the header must be non-empty and match the configured key
authMiddleware(apiKey) ==
    /\ apiKey # ""
    /\ IF config.HashAPIKey
       THEN CompareHashAndPassword(apiKeyHash, apiKey)
       ELSE ConstantTimeCompare(apiKey, config.APIKey) = 1

\* mutant: the body is not checked
ShouldBindJSON_Lenient(body) == TRUE

\* c.ShouldBindJSON(&req)
ShouldBindJSON(body) == body # "invalid json"

\* time.Since(t)
Since(t) == clock - t

Respond(w, r) ==
    /\ resp' = [resp EXCEPT ![w] = r]
    /\ pc' = [pc EXCEPT ![w] = "done"]

ToggleInFlight(w) ==
    pc[w] \notin {"idle", "done", "c.Next"} /\ req[w].route = "POST /toggle"

InFlight == Cardinality({w \in Workers : ToggleInFlight(w)})

(***************************************************************************)
(* Init: the process has just started with an empty database.              *)
(***************************************************************************)
\* value of elapsed[w] before time.Since has been evaluated
NotEvaluated == -1

NoReq == [route |-> "none", apiKey |-> "", body |-> ""]

\* the flags' defaults with an API key set: the key is hashed, and without a
\* Telegram token the sink is not initialized
DefaultConfig == [APIKey |-> APIKey, HashAPIKey |-> TRUE, Telegram |-> FALSE]

\* the addresses requests come from (c.ClientIP())
Clients == {"192.0.2.1", "192.0.2.2"}

\* the store holds no window for a key
NoWindow == [count |-> 0, expiration |-> 0]

\* no call of GetStatistics has returned
NoStatistics == [dailyStats |-> <<>>, totalChanges |-> -1, err |-> "none"]

\* the goroutine is blocked on <-quit
Waiting == [pc |-> "<-quit", at |-> 0, err |-> "none"]

\* the button after boot: sede_state has its initial_value, the light is off
Booted == [sede_state |-> FALSE, rgb_light |-> "off", on_press |-> "idle"]

\* the state NewApp leaves when it is given cfg at time now
Loaded(cfg, now) ==
    /\ sede_statuses = <<>>
    /\ clock = now
    /\ pc = [w \in Workers |-> "idle"]
    /\ req = [w \in Workers |-> NoReq]
    /\ ctx = [w \in Workers |-> 0]
    /\ currentStatus = [w \in Workers |-> ZeroStatus]
    /\ err = [w \in Workers |-> "nil"]
    /\ elapsed = [w \in Workers |-> NotEvaluated]
    /\ cardName = [w \in Workers |-> "none"]
    /\ newStatus = [w \in Workers |-> ZeroStatus]
    /\ dailyStats = [w \in Workers |-> <<>>]
    /\ resp = [w \in Workers |-> NoResp]
    /\ readLen = [w \in Workers |-> -1]
    /\ created = [w \in Workers |-> {}]
    /\ appendLog = <<>>
    /\ config = cfg
    /\ notifications = <<>>
    /\ statistics = NoStatistics
    /\ rateLimiter = [key \in Clients |-> NoWindow]
    /\ esphome = Booted
    /\ shutdown = Waiting

\* the state of the process that serves requests with cfg since time now
Started(cfg, now) == Loaded(cfg, now) /\ runServer = "ListenAndServe"

Init == Started(DefaultConfig, StartTime)

\* The zero values of a handler's locals and of the history kept for it.
Reset(w) ==
    /\ currentStatus' = [currentStatus EXCEPT ![w] = ZeroStatus]
    /\ err' = [err EXCEPT ![w] = "nil"]
    /\ elapsed' = [elapsed EXCEPT ![w] = NotEvaluated]
    /\ cardName' = [cardName EXCEPT ![w] = "none"]
    /\ newStatus' = [newStatus EXCEPT ![w] = ZeroStatus]
    /\ dailyStats' = [dailyStats EXCEPT ![w] = <<>>]
    /\ readLen' = [readLen EXCEPT ![w] = -1]
    /\ created' = [created EXCEPT ![w] = {}]

(***************************************************************************)
(* The wall clock advances.                                                *)
(***************************************************************************)
\* the context of the request worker w is serving has passed its deadline
Expired(w) ==
    pc[w] \notin {"idle", "done", "c.Next"} /\ clock - ctx[w] >= contextTimeout

NoneDone == \A w \in Workers : pc[w] # "done"

\* A call made with an expired context returns at once and touches nothing
\* shared, so a handler whose context has expired runs to its response
\* before any other handler steps and before the clock advances again; a
\* written response is retired (Finish) before any other step.
Ready(w) == NoneDone /\ (Expired(w) \/ \A v \in Workers : ~Expired(v))

Tick ==
    /\ clock < MaxTime
    /\ NoneDone
    /\ \A w \in Workers : ~Expired(w)
    /\ clock' = clock + 1
    /\ UNCHANGED <<sede_statuses, pc, req, ctx, locals, resp, readLen,
                   created, appendLog>>
    /\ UNCHANGED <<config, notifications, statistics, rateLimiter, runServer, esphome, shutdown>>

(***************************************************************************)
(* rateLimitMiddleware: the first middleware of every route that touches   *)
(* the program's state.  a.rateLimiter keeps, in a memory store, one       *)
(* window of rateLimitDuration per key, and the key is the client address. *)
(***************************************************************************)
PublicRoutes == {"GET /status", "GET /stats", "GET /spaceapi.json"}

Routes == PublicRoutes \cup {"POST /toggle"}

\* store.Get(ctx, key, rate): the window of the key is started when the
\* store has none or it has expired, and its count is incremented
Increment(window) ==
    IF window.expiration <= clock
    THEN [count |-> 1, expiration |-> clock + rateLimitDuration]
    ELSE [window EXCEPT !.count = @ + 1]

\* mutant: the last request of the budget is refused
Reached_Inclusive(count) == count >= rateLimitRequests

\* limiterCtx.Reached: the count has gone beyond the limit
Reached(count) == count > rateLimitRequests

\* limiterCtx, err := a.rateLimiter.Get(ctx, c.ClientIP()); then either
\* AbortWithStatusJSON(429) or c.Next()
rateLimitMiddleware(w, client, route) ==
    /\ pc[w] = "idle"
    /\ Ready(w)
    /\ rateLimiter[client].count < rateLimitRequests + MaxRejected
    /\ route = "POST /toggle" => Len(sede_statuses) + InFlight < MaxEvents
    /\ req' = [req EXCEPT ![w] = [route |-> route, apiKey |-> "", body |-> ""]]
    /\ LET window == Increment(rateLimiter[client])
       IN /\ rateLimiter' = [rateLimiter EXCEPT ![client] = window]
          /\ IF Reached(window.count)
             THEN Respond(w, [code |-> 429,
                              body |-> [error |-> "rate limit exceeded"]])
             ELSE /\ pc' = [pc EXCEPT ![w] = "c.Next"]
                  /\ resp' = resp
    /\ UNCHANGED <<sede_statuses, clock, ctx, locals, readLen, created,
                   appendLog, config, notifications, statistics, runServer, esphome, shutdown>>

(***************************************************************************)
(* POST /toggle: authMiddleware, then App.toggleStatus                     *)
(***************************************************************************)
\* authMiddleware, ShouldBindJSON, context.WithTimeout
ToggleBegin(w, key, body) ==
    /\ pc[w] \in {"idle", "c.Next"}
    /\ Ready(w)
    /\ Len(sede_statuses) + InFlight < MaxEvents
    /\ req' = [req EXCEPT ![w] =
                 [route |-> "POST /toggle", apiKey |-> key,
                  body |-> IF authMiddleware(key) THEN body ELSE ""]]
    /\ ctx' = [ctx EXCEPT ![w] = clock]
    /\ IF ~authMiddleware(key)
       THEN Respond(w, [code |-> 401,
                        body |-> [error |-> "Invalid or missing API key"]])
       ELSE IF ~ShouldBindJSON(body)
       THEN Respond(w, [code |-> 400, body |-> [error |-> "Invalid JSON"]])
       ELSE /\ resp' = resp
            /\ pc' = [pc EXCEPT ![w] = "GetLatestStatus"]
    /\ UNCHANGED <<sede_statuses, clock, locals, readLen, created, appendLog>>
    /\ UNCHANGED <<config, notifications, statistics, rateLimiter, runServer, esphome, shutdown>>

\* currentStatus, err := a.repo.GetLatestStatus(ctx)
ToggleGetLatest(w, e) ==
    /\ pc[w] = "GetLatestStatus"
    /\ Ready(w)
    /\ req[w].route = "POST /toggle"
    /\ e \in DbErrors(w)
    /\ LET r == IF e = "nil" THEN GetLatestStatus(sede_statuses)
                ELSE [status |-> ZeroStatus, err |-> e]
       IN /\ currentStatus' = [currentStatus EXCEPT ![w] = r.status]
          /\ err' = [err EXCEPT ![w] = r.err]
          /\ readLen' = [readLen EXCEPT ![w] =
                           IF e = "nil" THEN Len(sede_statuses) ELSE @]
          /\ IF r.err # "nil" /\ r.err # "ErrRecordNotFound"
             THEN Respond(w, DatabaseErrorResp(r.err))
             ELSE /\ pc' = [pc EXCEPT ![w] = "cooldown"]
                  /\ resp' = resp
    /\ UNCHANGED <<sede_statuses, clock, req, ctx, elapsed, cardName,
                   newStatus, dailyStats, created, appendLog>>
    /\ UNCHANGED <<config, notifications, statistics, rateLimiter, runServer, esphome, shutdown>>

\* mutant: the cooldown is one tick shorter
CooldownActive_Short(d) == d < cooldownPeriod - 1

\* mutant: the boundary is rejected too
CooldownActive_Inclusive(d) == d <= cooldownPeriod

\* mutant: the cooldown check is missing
CooldownActive_Off(d) == FALSE

\* if time.Since(currentStatus.Timestamp) < cooldownPeriod { 429 }
CooldownActive(d) == d < cooldownPeriod

\* req.CardID and req.Hash as ShouldBindJSON leaves them: "" for a member
\* the body does not carry
CardID(body) == IF body \in {"{cardId}", "{cardId,hash}"} THEN "04-A1-B2" ELSE ""

Hash(body) == IF body \in {"{hash}", "{cardId,hash}"} THEN "5f4dcc" ELSE ""

\* mutant: one of the two members is enough
LookupWanted_Either(body) == CardID(body) # "" \/ Hash(body) # ""

\* if req.CardID != "" && req.Hash != ""
LookupWanted(body) == CardID(body) # "" /\ Hash(body) # ""

ToggleCooldown(w) ==
    /\ pc[w] = "cooldown"
    /\ Ready(w)
    /\ LET d == Since(currentStatus[w].Timestamp)
       IN /\ elapsed' = [elapsed EXCEPT ![w] = d]
          /\ IF CooldownActive(d)
             THEN Respond(w, [code |-> 429,
                              body |-> [error |-> "Status can only be changed every 1m0s"]])
             ELSE /\ resp' = resp
                  /\ pc' = [pc EXCEPT ![w] =
                              IF LookupWanted(req[w].body)
                              THEN "getCardName" ELSE "newStatus"]
    /\ UNCHANGED <<sede_statuses, clock, req, ctx, currentStatus, err,
                   cardName, newStatus, dailyStats, readLen, created, appendLog>>
    /\ UNCHANGED <<config, notifications, statistics, rateLimiter, runServer, esphome, shutdown>>

\* Outcomes of the POST to the card manager: the request fails once the
\* context has expired; otherwise it may fail, return a non-200 status,
\* return a body that cannot be read, or return the name.
LookupOutcomes(w) ==
    IF clock - ctx[w] >= contextTimeout THEN {"unreachable"}
    ELSE {"unreachable", "non-200", "unreadable", "name"}

\* mutant: a failed lookup is ignored and the toggle goes on without a name
getCardName_NoAbort(w, o) ==
    /\ pc[w] = "getCardName"
    /\ Ready(w)
    /\ o \in LookupOutcomes(w)
    /\ cardName' = [cardName EXCEPT ![w] = o]
    /\ resp' = resp
    /\ pc' = [pc EXCEPT ![w] = "newStatus"]
    /\ UNCHANGED <<sede_statuses, clock, req, ctx, currentStatus, err,
                   elapsed, newStatus, dailyStats, readLen, created, appendLog>>
    /\ UNCHANGED <<config, notifications, statistics, rateLimiter, runServer, esphome, shutdown>>

\* cardName = a.getCardName(ctx, req.CardID, req.Hash, c); if c.IsAborted() return
getCardName(w, o) ==
    /\ pc[w] = "getCardName"
    /\ Ready(w)
    /\ o \in LookupOutcomes(w)
    /\ cardName' = [cardName EXCEPT ![w] = o]
    /\ IF o = "unreachable"
       THEN Respond(w, [code |-> 502,
                        body |-> [error |-> "Failed to contact card manager"]])
       ELSE IF o = "non-200"
       THEN Respond(w, [code |-> 502,
                        body |-> [error |-> "Card manager returned error"]])
       ELSE /\ resp' = resp
            /\ pc' = [pc EXCEPT ![w] = "newStatus"]
    /\ UNCHANGED <<sede_statuses, clock, req, ctx, currentStatus, err,
                   elapsed, newStatus, dailyStats, readLen, created, appendLog>>
    /\ UNCHANGED <<config, notifications, statistics, rateLimiter, runServer, esphome, shutdown>>

\* mutant: every toggle opens
Toggled_AlwaysOpen(status) ==
    [ID |-> 0, IsOpen |-> TRUE, Timestamp |-> clock]

\* mutant: the negation is missing
Toggled_NoFlip(status) ==
    [ID |-> 0, IsOpen |-> status.IsOpen, Timestamp |-> clock]

\* mutant: the new row keeps the timestamp of the row that was read
Toggled_SameTime(status) ==
    [ID |-> 0, IsOpen |-> ~status.IsOpen, Timestamp |-> status.Timestamp]

\* newStatus := SedeStatus{IsOpen: !currentStatus.IsOpen, Timestamp: time.Now().UTC()}
Toggled(status) ==
    [ID |-> 0, IsOpen |-> ~status.IsOpen, Timestamp |-> clock]

ToggleNewStatus(w) ==
    /\ pc[w] = "newStatus"
    /\ Ready(w)
    /\ newStatus' = [newStatus EXCEPT ![w] = Toggled(currentStatus[w])]
    /\ pc' = [pc EXCEPT ![w] = "CreateStatus"]
    /\ UNCHANGED <<sede_statuses, clock, req, ctx, currentStatus, err,
                   elapsed, cardName, dailyStats, resp, readLen, created, appendLog>>
    /\ UNCHANGED <<config, notifications, statistics, rateLimiter, runServer, esphome, shutdown>>

\* history: the entry of appendLog for the row worker w inserts
LogEntry(w) ==
    [spaced |-> \/ sede_statuses = <<>>
                \/ ctx[w] - sede_statuses[Len(sede_statuses)].Timestamp
                      >= cooldownPeriod,
     readLen |-> readLen[w],
     returned |-> newStatus[w].IsOpen]

\* a.telegram.IsInitialized(): the client is set only when NewTelegram found
\* a token and a chat id and bot.New succeeded
IsInitialized == config.Telegram

\* the text the goroutine sends: "sede aperta" or "sede chiusa", "da <name>"
\* when the lookup returned a name
Message(status, name) ==
    [action |-> IF status.IsOpen THEN "aperta" ELSE "chiusa",
     da |-> IF name = "name" THEN name ELSE ""]

\* go func() { ... a.telegram.Send(msg) ... }() for the row just inserted
Spawn(w, id) ==
    IF IsInitialized
    THEN Append(notifications,
                [row |-> id, msg |-> Message(newStatus[w], cardName[w]),
                 state |-> "running"])
    ELSE notifications

\* mutant: the error of CreateStatus is not checked
ToggleCreate_IgnoreError(w, e) ==
    /\ pc[w] = "CreateStatus"
    /\ Ready(w)
    /\ e \in DbErrors(w)
    /\ err' = [err EXCEPT ![w] = e]
    /\ IF e # "nil"
       THEN UNCHANGED <<sede_statuses, created, appendLog>>
       ELSE /\ sede_statuses' = CreateStatus(sede_statuses, newStatus[w])
            /\ created' = [created EXCEPT ![w] = @ \cup {NextID(sede_statuses)}]
            /\ appendLog' = Append(appendLog,
                                    LogEntry(w))
    /\ notifications' = IF e # "nil" THEN notifications
                        ELSE Spawn(w, NextID(sede_statuses))
    /\ Respond(w, [code |-> 200, body |-> [isOpen |-> newStatus[w].IsOpen]])
    /\ UNCHANGED <<clock, req, ctx, currentStatus, elapsed, cardName,
                   newStatus, dailyStats, readLen>>
    /\ UNCHANGED <<config, statistics, rateLimiter, runServer, esphome, shutdown>>

\* mutant: the notification is started before CreateStatus is called
ToggleCreate_NotifyFirst(w, e) ==
    /\ pc[w] = "CreateStatus"
    /\ Ready(w)
    /\ e \in DbErrors(w)
    /\ err' = [err EXCEPT ![w] = e]
    /\ notifications' = Spawn(w, NextID(sede_statuses))
    /\ IF e # "nil"
       THEN /\ Respond(w, DatabaseErrorResp(e))
            /\ UNCHANGED <<sede_statuses, created, appendLog>>
       ELSE /\ sede_statuses' = CreateStatus(sede_statuses, newStatus[w])
            /\ created' = [created EXCEPT ![w] = @ \cup {NextID(sede_statuses)}]
            /\ appendLog' = Append(appendLog,
                                    LogEntry(w))
            /\ Respond(w, [code |-> 200,
                           body |-> [isOpen |-> newStatus[w].IsOpen]])
    /\ UNCHANGED <<clock, req, ctx, currentStatus, elapsed, cardName,
                   newStatus, dailyStats, readLen>>
    /\ UNCHANGED <<config, statistics, rateLimiter, runServer, esphome, shutdown>>

\* a.repo.CreateStatus(ctx, newStatus), the notification goroutine, then
\* c.JSON(200, {"isOpen": ...})
ToggleCreate(w, e) ==
    /\ pc[w] = "CreateStatus"
    /\ Ready(w)
    /\ e \in DbErrors(w)
    /\ err' = [err EXCEPT ![w] = e]
    /\ IF e # "nil"
       THEN /\ Respond(w, DatabaseErrorResp(e))
            /\ UNCHANGED <<sede_statuses, created, appendLog, notifications>>
       ELSE /\ sede_statuses' = CreateStatus(sede_statuses, newStatus[w])
            /\ created' = [created EXCEPT ![w] = @ \cup {NextID(sede_statuses)}]
            /\ appendLog' = Append(appendLog,
                                    LogEntry(w))
            /\ notifications' = Spawn(w, NextID(sede_statuses))
            /\ Respond(w, [code |-> 200,
                           body |-> [isOpen |-> newStatus[w].IsOpen]])
    /\ UNCHANGED <<clock, req, ctx, currentStatus, elapsed, cardName,
                   newStatus, dailyStats, readLen>>
    /\ UNCHANGED <<config, statistics, rateLimiter, runServer, esphome, shutdown>>

\* The goroutine: a.telegram.Send(msg) returns; an error is only logged.
\* It runs on context.TODO(), apart from the request, and may never return.
TelegramSend(i, outcome) ==
    /\ i \in 1..Len(notifications)
    /\ notifications[i].state = "running"
    /\ outcome \in {"sent", "failed"}
    /\ notifications' = [notifications EXCEPT ![i].state = outcome]
    /\ UNCHANGED <<sede_statuses, clock, pc, req, ctx, locals, resp, readLen,
                   created, appendLog, config, statistics, rateLimiter, runServer, esphome, shutdown>>

(***************************************************************************)
(* The public routes.  GET /status and GET /spaceapi.json make one call to *)
(* the repository, so each is one step from the arrival of the request to  *)
(* its response; the call fails with DeadlineExceeded when it is still     *)
(* blocked contextTimeout after the context was created.  GET /stats runs  *)
(* two queries and is two steps.                                           *)
(***************************************************************************)

\* the request reaches the handler, which creates its context
\* (context.WithTimeout(c.Request.Context(), contextTimeout))
Arrive(w, route) ==
    /\ pc[w] \in {"idle", "c.Next"}
    /\ Ready(w)
    /\ req' = [req EXCEPT ![w] = [route |-> route, apiKey |-> "", body |-> ""]]
    /\ ctx' = [ctx EXCEPT ![w] = clock]

(***************************************************************************)
(* GET /status: App.getStatus                                              *)
(***************************************************************************)
\* mutant: FirstOrCreate, which inserts a closed row when the table is empty
getStatus_FirstOrCreate(w, e) ==
    /\ Arrive(w, "GET /status")
    /\ e \in DbErrorKinds
    /\ err' = [err EXCEPT ![w] = e]
    /\ IF e # "nil"
       THEN /\ Respond(w, DatabaseErrorResp(e))
            /\ UNCHANGED <<sede_statuses, currentStatus, readLen>>
       ELSE LET r == GetLatestStatus(sede_statuses)
            IN /\ sede_statuses' =
                     IF r.err = "nil" THEN sede_statuses
                     ELSE CreateStatus(sede_statuses,
                                       [ZeroStatus EXCEPT !.Timestamp = clock])
               /\ currentStatus' = [currentStatus EXCEPT ![w] = r.status]
               /\ readLen' = [readLen EXCEPT ![w] = Len(sede_statuses)]
               /\ Respond(w, [code |-> 200, body |-> FormatBool(r.status.IsOpen)])
    /\ UNCHANGED <<clock, elapsed, cardName, newStatus, dailyStats,
                   created, appendLog>>
    /\ UNCHANGED <<config, notifications, statistics, rateLimiter, runServer, esphome, shutdown>>

\* mutant: the handler skips ErrRecordNotFound the way toggleStatus does
getStatus_NotFoundClosed(w, e) ==
    /\ Arrive(w, "GET /status")
    /\ e \in DbErrorKinds
    /\ LET r == IF e = "nil" THEN GetLatestStatus(sede_statuses)
                ELSE [status |-> ZeroStatus, err |-> e]
       IN /\ currentStatus' = [currentStatus EXCEPT ![w] = r.status]
          /\ err' = [err EXCEPT ![w] = r.err]
          /\ readLen' = [readLen EXCEPT ![w] =
                           IF e = "nil" THEN Len(sede_statuses) ELSE @]
          /\ IF r.err # "nil" /\ r.err # "ErrRecordNotFound"
             THEN Respond(w, DatabaseErrorResp(r.err))
             ELSE Respond(w, [code |-> 200, body |-> FormatBool(r.status.IsOpen)])
    /\ UNCHANGED <<sede_statuses, clock, elapsed, cardName,
                   newStatus, dailyStats, created, appendLog>>
    /\ UNCHANGED <<config, notifications, statistics, rateLimiter, runServer, esphome, shutdown>>

getStatus(w, e) ==
    /\ Arrive(w, "GET /status")
    /\ e \in DbErrorKinds
    /\ LET r == IF e = "nil" THEN GetLatestStatus(sede_statuses)
                ELSE [status |-> ZeroStatus, err |-> e]
       IN /\ currentStatus' = [currentStatus EXCEPT ![w] = r.status]
          /\ err' = [err EXCEPT ![w] = r.err]
          /\ readLen' = [readLen EXCEPT ![w] =
                           IF e = "nil" THEN Len(sede_statuses) ELSE @]
          /\ IF handleDatabaseError(r.err) # 0
             THEN Respond(w, DatabaseErrorResp(r.err))
             ELSE Respond(w, [code |-> 200, body |-> FormatBool(r.status.IsOpen)])
    /\ UNCHANGED <<sede_statuses, clock, elapsed, cardName,
                   newStatus, dailyStats, created, appendLog>>
    /\ UNCHANGED <<config, notifications, statistics, rateLimiter, runServer, esphome, shutdown>>

(***************************************************************************)
(* GET /spaceapi.json: App.getSpaceAPI                                     *)
(***************************************************************************)
getSpaceAPI(w, e) ==
    /\ Arrive(w, "GET /spaceapi.json")
    /\ e \in DbErrorKinds
    /\ LET r == IF e = "nil" THEN GetLatestStatus(sede_statuses)
                ELSE [status |-> ZeroStatus, err |-> e]
       IN /\ currentStatus' = [currentStatus EXCEPT ![w] = r.status]
          /\ err' = [err EXCEPT ![w] = r.err]
          /\ readLen' = [readLen EXCEPT ![w] =
                           IF e = "nil" THEN Len(sede_statuses) ELSE @]
          /\ IF r.err # "nil" /\ r.err # "ErrRecordNotFound"
             THEN Respond(w, DatabaseErrorResp(r.err))
             ELSE Respond(w, [code |-> 200,
                              body |-> [open |-> IF r.err = "ErrRecordNotFound"
                                                 THEN "null"
                                                 ELSE FormatBool(r.status.IsOpen)]])
    /\ UNCHANGED <<sede_statuses, clock, elapsed, cardName,
                   newStatus, dailyStats, created, appendLog>>
    /\ UNCHANGED <<config, notifications, statistics, rateLimiter, runServer, esphome, shutdown>>

(***************************************************************************)
(* GET /stats: App.getStats, Repository.GetWeeklyStats                     *)
(***************************************************************************)
\* the first query of GetWeeklyStats
getStatsDaily(w, e) ==
    /\ Arrive(w, "GET /stats")
    /\ e \in DbErrorKinds
    /\ err' = [err EXCEPT ![w] = e]
    /\ IF e # "nil"
       THEN /\ Respond(w, DatabaseErrorResp(e))
            /\ UNCHANGED dailyStats
       ELSE /\ dailyStats' = [dailyStats EXCEPT ![w] =
                                DailyQuery(sede_statuses, clock)]
            /\ pc' = [pc EXCEPT ![w] = "hourlyStats"]
            /\ resp' = resp
    /\ UNCHANGED <<sede_statuses, clock, currentStatus, elapsed,
                   cardName, newStatus, readLen, created, appendLog>>
    /\ UNCHANGED <<config, notifications, statistics, rateLimiter, runServer, esphome, shutdown>>

\* the second query, the merge by day, and c.JSON(200, weeklyStats)
getStatsHourly(w, e) ==
    /\ pc[w] = "hourlyStats"
    /\ Ready(w)
    /\ e \in DbErrors(w)
    /\ err' = [err EXCEPT ![w] = e]
    /\ IF e # "nil"
       THEN Respond(w, DatabaseErrorResp(e))
       ELSE Respond(w, [code |-> 200,
                        body |-> MergeWeekly(dailyStats[w],
                                             HourlyQuery(sede_statuses, clock))])
    /\ UNCHANGED <<sede_statuses, clock, req, ctx, currentStatus, elapsed,
                   cardName, newStatus, dailyStats, readLen, created, appendLog>>
    /\ UNCHANGED <<config, notifications, statistics, rateLimiter, runServer, esphome, shutdown>>

(***************************************************************************)
(* The response has been written and the handler returns.  A finished      *)
(* request is retired before any other step, so that the locals of         *)
(* completed requests are not carried along.                               *)
(***************************************************************************)
Finish(w) ==
    /\ pc[w] = "done"
    /\ pc' = [pc EXCEPT ![w] = "idle"]
    /\ req' = [req EXCEPT ![w] = NoReq]
    /\ ctx' = [ctx EXCEPT ![w] = 0]
    /\ resp' = [resp EXCEPT ![w] = NoResp]
    /\ Reset(w)
    /\ UNCHANGED <<sede_statuses, clock, appendLog>>
    /\ UNCHANGED <<config, notifications, statistics, rateLimiter, runServer, esphome, shutdown>>

Next ==
    \/ Tick
    \/ \E w \in Workers, key \in Keys, body \in Bodies : ToggleBegin(w, key, body)
    \/ \E w \in Workers, e \in DbErrorKinds : ToggleGetLatest(w, e)
    \/ \E w \in Workers : ToggleCooldown(w)
    \/ \E w \in Workers, o \in {"unreachable", "non-200", "unreadable", "name"} :
          getCardName(w, o)
    \/ \E w \in Workers : ToggleNewStatus(w)
    \/ \E w \in Workers, e \in DbErrorKinds : ToggleCreate(w, e)
    \/ \E w \in Workers, e \in DbErrorKinds : getStatus(w, e)
    \/ \E w \in Workers, e \in DbErrorKinds : getSpaceAPI(w, e)
    \/ \E w \in Workers, e \in DbErrorKinds : getStatsDaily(w, e)
    \/ \E w \in Workers, e \in DbErrorKinds : getStatsHourly(w, e)
    \/ \E w \in Workers : Finish(w)

Spec == Init /\ [][Next]_vars

(***************************************************************************)
(* POST /toggle under every way of configuring the API key: plain or       *)
(* hashed, and (as Debug allows) empty.  Requests are served one at a time.*)
(***************************************************************************)
AuthConfigs ==
    {[APIKey |-> k, HashAPIKey |-> h, Telegram |-> FALSE] :
        k \in {APIKey, ""}, h \in BOOLEAN}

InitAuth == \E cfg \in AuthConfigs : Started(cfg, StartTime)

\* the one goroutine that serves requests when they come one at a time
Sequential == {1}

NextAuth ==
    \/ Tick
    \/ \E w \in Sequential, key \in Keys, body \in Bodies : ToggleBegin(w, key, body)
    \/ \E w \in Sequential, e \in DbErrorKinds : ToggleGetLatest(w, e)
    \/ \E w \in Sequential : ToggleCooldown(w)
    \/ \E w \in Sequential, o \in {"unreachable", "non-200", "unreadable", "name"} :
          getCardName(w, o)
    \/ \E w \in Sequential : ToggleNewStatus(w)
    \/ \E w \in Sequential, e \in DbErrorKinds : ToggleCreate(w, e)
    \/ \E w \in Sequential : Finish(w)

SpecAuth == InitAuth /\ [][NextAuth]_vars

(***************************************************************************)
(* POST /toggle with every shape of body: not JSON, no member, cardId      *)
(* alone, hash alone, both.  Requests are served one at a time.            *)
(***************************************************************************)
CardBodies == Bodies \cup {"{cardId}", "{hash}"}

NextCard ==
    \/ Tick
    \/ \E w \in Sequential, key \in Keys, body \in CardBodies :
          ToggleBegin(w, key, body)
    \/ \E w \in Sequential, e \in DbErrorKinds : ToggleGetLatest(w, e)
    \/ \E w \in Sequential : ToggleCooldown(w)
    \/ \E w \in Sequential, o \in {"unreachable", "non-200", "unreadable", "name"} :
          getCardName(w, o)
    \/ \E w \in Sequential : ToggleNewStatus(w)
    \/ \E w \in Sequential, e \in DbErrorKinds : ToggleCreate(w, e)
    \/ \E w \in Sequential : Finish(w)

SpecCard == Init /\ [][NextCard]_vars

(***************************************************************************)
(* POST /toggle with and without an initialized Telegram sink, and the     *)
(* goroutines it starts.  Requests are served one at a time; the           *)
(* goroutines run beside them.                                             *)
(***************************************************************************)
NotifyConfigs == {[DefaultConfig EXCEPT !.Telegram = t] : t \in BOOLEAN}

InitNotify == \E cfg \in NotifyConfigs : Started(cfg, StartTime)

NextNotify ==
    \/ Tick
    \/ \E w \in Sequential, key \in Keys, body \in Bodies : ToggleBegin(w, key, body)
    \/ \E w \in Sequential, e \in DbErrorKinds : ToggleGetLatest(w, e)
    \/ \E w \in Sequential : ToggleCooldown(w)
    \/ \E w \in Sequential, o \in {"unreachable", "non-200", "unreadable", "name"} :
          getCardName(w, o)
    \/ \E w \in Sequential : ToggleNewStatus(w)
    \/ \E w \in Sequential, e \in DbErrorKinds : ToggleCreate(w, e)
    \/ \E w \in Sequential : Finish(w)
    \/ \E i \in 1..MaxEvents, outcome \in {"sent", "failed"} : TelegramSend(i, outcome)

SpecNotify == InitNotify /\ [][NextNotify]_vars

(***************************************************************************)
(* The statistics as functions of the table and of now: rows with chosen   *)
(* timestamps are inserted through Repository.CreateStatus, as the tests   *)
(* do, and then GET /stats is served or GetStatistics is called.           *)
(***************************************************************************)
\* hour o'clock (UTC) of the given day
At(day, hour) == day * TicksPerDay + hour * TicksPerHour

\* now: a Friday, at noon
StatsNow == At(200, 12)

\* The timestamps of the rows: a week before now at 10 and 14 (Friday) and
\* two weeks before at 10; 90 days before now at 10, which is the first day
\* of the 90 day window, and the day before that; the day after now; a
\* Saturday at 11; the day before now at 8 and at 22; 35 days before now;
\* 30 days before now at 9; a Sunday at 21 and a Monday at 10.
SeedTimes ==
    <<At(193, 10), At(110, 10), At(201, 10), At(193, 14), At(194, 11),
      At(199, 8), At(109, 10), At(186, 10), At(199, 22), At(165, 10),
      At(170, 9), At(195, 21), At(196, 10)>>

\* rows are inserted in the order of SeedTimes (closed before open), which is
\* not the order of their timestamps
SeedKey(row) ==
    2 * (CHOOSE i \in 1..Len(SeedTimes) : SeedTimes[i] = row.Timestamp)
      + (IF row.IsOpen THEN 1 ELSE 0)

\* createTestStatus: repo.CreateStatus(ctx, SedeStatus{IsOpen, Timestamp})
Seed(isOpen, i) ==
    /\ \A w \in Workers : pc[w] = "idle"
    /\ Len(sede_statuses) < MaxRows
    /\ i \in 1..Len(SeedTimes)
    /\ LET row == [ID |-> 0, IsOpen |-> isOpen, Timestamp |-> SeedTimes[i]]
       IN /\ sede_statuses # <<>>
             => SeedKey(row) > SeedKey(sede_statuses[Len(sede_statuses)])
          /\ sede_statuses' = CreateStatus(sede_statuses, row)
    /\ UNCHANGED <<clock, pc, req, ctx, locals, resp, readLen, created,
                   appendLog, config, notifications, statistics, rateLimiter, runServer, esphome, shutdown>>

\* stats, total, err := repo.GetStatistics(ctx): the count and the query run
\* in one transaction; when either fails the error is returned with what was
\* set before
GetStatisticsCall(outcome) ==
    /\ \A w \in Workers : pc[w] = "idle"
    /\ outcome \in {"nil", "count fails", "query fails"}
    /\ statistics' =
          [dailyStats |-> IF outcome = "nil"
                          THEN GetStatistics(sede_statuses, clock) ELSE <<>>,
           totalChanges |-> IF outcome = "count fails"
                            THEN 0 ELSE Count(sede_statuses),
           err |-> IF outcome = "nil" THEN "nil" ELSE "storage error"]
    /\ UNCHANGED <<sede_statuses, clock, pc, req, ctx, locals, resp, readLen,
                   created, appendLog, config, notifications, rateLimiter, runServer, esphome, shutdown>>

InitStats == Started(DefaultConfig, StatsNow)

\* the table is filled first; then either GetStatistics is called once or
\* requests for GET /stats are served
NextStats ==
    \/ \E isOpen \in BOOLEAN, i \in 1..Len(SeedTimes) :
          statistics = NoStatistics /\ Seed(isOpen, i)
    \/ \E outcome \in {"nil", "count fails", "query fails"} :
          statistics = NoStatistics /\ GetStatisticsCall(outcome)
    \/ \E w \in Sequential, e \in DbErrorKinds :
          statistics = NoStatistics /\ getStatsDaily(w, e)
    \/ \E w \in Sequential, e \in DbErrorKinds : getStatsHourly(w, e)
    \/ \E w \in Sequential : Finish(w)

SpecStats == InitStats /\ [][NextStats]_vars

(***************************************************************************)
(* The repository beside the running server: the table holds rows of       *)
(* earlier days when toggles arrive, one at a time, and GetStatistics is   *)
(* called any number of times, before and after them.  Time stands still.  *)
(***************************************************************************)
InitCalls == Started(DefaultConfig, StatsNow)

\* the rows of earlier days, as indices of SeedTimes: a week before now,
\* the day after now, 91 days before now and 35 days before now
EarlierRows == {1, 3, 7, 10}

NextCalls ==
    \/ \E isOpen \in BOOLEAN, i \in EarlierRows :
          appendLog = <<>> /\ Seed(isOpen, i)
    \/ \E outcome \in {"nil", "count fails", "query fails"} :
          GetStatisticsCall(outcome)
    \/ \E w \in Sequential, key \in Keys, body \in Bodies : ToggleBegin(w, key, body)
    \/ \E w \in Sequential, e \in DbErrorKinds : ToggleGetLatest(w, e)
    \/ \E w \in Sequential : ToggleCooldown(w)
    \/ \E w \in Sequential, o \in {"unreachable", "non-200", "unreadable", "name"} :
          getCardName(w, o)
    \/ \E w \in Sequential : ToggleNewStatus(w)
    \/ \E w \in Sequential, e \in DbErrorKinds : ToggleCreate(w, e)
    \/ \E w \in Sequential, e \in DbErrorKinds : getStatsDaily(w, e)
    \/ \E w \in Sequential, e \in DbErrorKinds : getStatsHourly(w, e)
    \/ \E w \in Sequential : Finish(w)

SpecCalls == InitCalls /\ [][NextCalls]_vars

(***************************************************************************)
(* hardware/config/pulsante-sede.yaml: the button.  A press turns the     *)
(* light to the effect "Elaborazione" and posts {cardId, hash} to the     *)
(* toggle URL with the API key; on_response and on_error set the light    *)
(* and the global sede_state.  card_id and card_hash are what the last    *)
(* tag left in the globals: both empty, the id alone, or both.            *)
(***************************************************************************)
\* c.JSON(code, obj): the text of the response body for a gin.H with the
\* member isOpen or the member error
WriteJSON(obj) ==
    IF "isOpen" \in DOMAIN obj
    THEN IF obj.isOpen THEN "{\"isOpen\":true}" ELSE "{\"isOpen\":false}"
    ELSE "{\"error\":\"" \o obj.error \o "\"}"

\* binary_sensor.on_press: light.turn_on with the effect, http_request.post
on_press ==
    /\ esphome.on_press = "idle"
    /\ \A w \in Workers : pc[w] = "idle"
    /\ esphome' = [esphome EXCEPT !.on_press = "http_request.post",
                                  !.rgb_light = "Elaborazione"]
    /\ UNCHANGED <<sede_statuses, clock, pc, req, ctx, locals, resp, readLen,
                   created, appendLog, config, notifications, statistics,
                   rateLimiter, runServer, shutdown>>

\* the request of the button reaches the server
Posted(w) == esphome.on_press = "http_request.post" /\ pc[w] = "idle"

\* on_response: status_code == 200 and body == "true" give green and
\* sede_state true; 200 with any other body gives red and false; another
\* status gives the effect "Errore" and false
on_response(w) ==
    /\ esphome.on_press = "http_request.post"
    /\ pc[w] = "done"
    /\ LET body == WriteJSON(resp[w].body)
       IN esphome' =
            IF resp[w].code = 200
            THEN IF body = "true"
                 THEN [sede_state |-> TRUE, rgb_light |-> "green",
                       on_press |-> "idle"]
                 ELSE [sede_state |-> FALSE, rgb_light |-> "red",
                       on_press |-> "idle"]
            ELSE [sede_state |-> FALSE, rgb_light |-> "Errore",
                  on_press |-> "idle"]
    /\ UNCHANGED <<sede_statuses, clock, pc, req, ctx, locals, resp, readLen,
                   created, appendLog, config, notifications, statistics,
                   rateLimiter, runServer, shutdown>>

\* on_error: the request did not reach the server
on_error ==
    /\ esphome.on_press = "http_request.post"
    /\ \A w \in Workers : pc[w] = "idle"
    /\ esphome' = [sede_state |-> FALSE, rgb_light |-> "Errore",
                   on_press |-> "idle"]
    /\ UNCHANGED <<sede_statuses, clock, pc, req, ctx, locals, resp, readLen,
                   created, appendLog, config, notifications, statistics,
                   rateLimiter, runServer, shutdown>>

\* the bodies the button posts
ButtonBodies == {"{}", "{cardId}", "{cardId,hash}"}

NextButton ==
    \/ Tick
    \/ on_press
    \/ on_error
    \/ \E w \in Sequential, key \in Keys, body \in ButtonBodies :
          Posted(w) /\ ToggleBegin(w, key, body)
    \/ \E w \in Sequential, e \in DbErrorKinds : ToggleGetLatest(w, e)
    \/ \E w \in Sequential : ToggleCooldown(w)
    \/ \E w \in Sequential, o \in {"unreachable", "non-200", "unreadable", "name"} :
          getCardName(w, o)
    \/ \E w \in Sequential : ToggleNewStatus(w)
    \/ \E w \in Sequential, e \in DbErrorKinds : ToggleCreate(w, e)
    \/ \E w \in Sequential : on_response(w)
    \/ \E w \in Sequential : esphome.on_press = "idle" /\ Finish(w)

SpecButton == Init /\ [][NextButton]_vars

(***************************************************************************)
(* Shutdown: runServer starts a goroutine that waits for SIGINT or         *)
(* SIGTERM and then calls App.Shutdown, serves with ListenAndServe, and    *)
(* after it waits for the goroutine (wg.Wait) and returns.  srv.Shutdown   *)
(* closes the listener, so that no request arrives any more, and returns   *)
(* when every connection is idle or when its context of 5 seconds          *)
(* expires; handlers that still run are left running.  The limit is less   *)
(* than one step of the clock: it may expire at any moment after the call  *)
(* and has expired once the clock has advanced.                            *)
(***************************************************************************)
Serving == runServer = "ListenAndServe"

Exited == runServer = "return"

\* sqlDB.Close() has returned
Closed == shutdown.pc = "done"

\* mutant: srv.Shutdown does not wait for the handlers
Drained_NoWait == TRUE

\* no connection is active: every handler has returned
Drained == \A w \in Workers : pc[w] = "idle"

\* <-quit returns; srv.Shutdown(ctx) is called with a context of 5 seconds
\* and closes the listener: ListenAndServe returns ErrServerClosed
Signal ==
    /\ Serving
    /\ shutdown.pc = "<-quit"
    /\ shutdown' = [pc |-> "srv.Shutdown", at |-> clock, err |-> "none"]
    /\ runServer' = "wg.Wait"
    /\ UNCHANGED <<sede_statuses, clock, pc, req, ctx, locals, resp, readLen,
                   created, appendLog, config, notifications, statistics,
                   rateLimiter, esphome>>

\* srv.Shutdown returns: nil when the handlers have returned, the error of
\* the context when the 5 seconds expired first (it is only logged)
srvShutdown(e) ==
    /\ shutdown.pc = "srv.Shutdown"
    /\ \/ e = "nil" /\ Drained
       \/ e = "DeadlineExceeded" /\ ~Drained
    /\ shutdown' = [shutdown EXCEPT !.pc = "sqlDB.Close", !.err = e]
    /\ UNCHANGED <<sede_statuses, clock, pc, req, ctx, locals, resp, readLen,
                   created, appendLog, config, notifications, statistics,
                   rateLimiter, runServer, esphome>>

\* if sqlDB, err := a.repo.Db.DB(); err == nil { sqlDB.Close() }
sqlDBClose ==
    /\ shutdown.pc = "sqlDB.Close"
    /\ shutdown' = [shutdown EXCEPT !.pc = "done"]
    /\ UNCHANGED <<sede_statuses, clock, pc, req, ctx, locals, resp, readLen,
                   created, appendLog, config, notifications, statistics,
                   rateLimiter, runServer, esphome>>

\* wg.Wait() returns once the goroutine is done, and runServer returns: the
\* process exits and its handlers with it
wgWait ==
    /\ runServer = "wg.Wait"
    /\ shutdown.pc = "done"
    /\ runServer' = "return"
    /\ UNCHANGED <<sede_statuses, clock, pc, req, ctx, locals, resp, readLen,
                   created, appendLog, config, notifications, statistics,
                   rateLimiter, esphome, shutdown>>

\* a call to the repository on a closed store fails, unless the context
\* of the call has expired first
OnStore(w, e) ==
    (Closed /\ "storage error" \in DbErrors(w)) => e = "storage error"

\* the 5 seconds of srv.Shutdown are over before the clock advances again
LimitPending == shutdown.pc = "srv.Shutdown" /\ clock > shutdown.at

NextShutdown ==
    \/ ~Exited /\ ~LimitPending /\ Tick
    \/ Signal
    \/ \E e \in {"nil", "DeadlineExceeded"} : srvShutdown(e)
    \/ sqlDBClose
    \/ wgWait
    \/ \E w \in Sequential, key \in Keys, body \in Bodies :
          Serving /\ ToggleBegin(w, key, body)
    \/ \E w \in Sequential, e \in DbErrorKinds :
          ~Exited /\ OnStore(w, e) /\ ToggleGetLatest(w, e)
    \/ \E w \in Sequential : ~Exited /\ ToggleCooldown(w)
    \/ \E w \in Sequential, o \in {"unreachable", "non-200", "unreadable", "name"} :
          ~Exited /\ getCardName(w, o)
    \/ \E w \in Sequential : ~Exited /\ ToggleNewStatus(w)
    \/ \E w \in Sequential, e \in DbErrorKinds :
          ~Exited /\ OnStore(w, e) /\ ToggleCreate(w, e)
    \/ \E w \in Sequential, e \in DbErrorKinds : Serving /\ getStatus(w, e)
    \/ \E w \in Sequential, e \in DbErrorKinds : Serving /\ getStatsDaily(w, e)
    \/ \E w \in Sequential, e \in DbErrorKinds :
          ~Exited /\ OnStore(w, e) /\ getStatsHourly(w, e)
    \/ \E w \in Sequential : ~Exited /\ Finish(w)

SpecShutdown == Init /\ [][NextShutdown]_vars

(***************************************************************************)
(* GET /stats beside POST /toggle: one goroutine serves requests for the   *)
(* statistics while another serves toggles, on a table that may hold rows  *)
(* of earlier days.  The two queries of GetWeeklyStats are two statements, *)
(* not one transaction, so an insert may fall between them.  Time stands   *)
(* still.                                                                  *)
(***************************************************************************)
StatsReader == {1}

Toggler == {2}

NextBeside ==
    \/ \E isOpen \in BOOLEAN, i \in EarlierRows :
          appendLog = <<>> /\ Seed(isOpen, i)
    \/ \E w \in Toggler, key \in Keys, body \in Bodies : ToggleBegin(w, key, body)
    \/ \E w \in Toggler, e \in DbErrorKinds : ToggleGetLatest(w, e)
    \/ \E w \in Toggler : ToggleCooldown(w)
    \/ \E w \in Toggler, o \in {"unreachable", "non-200", "unreadable", "name"} :
          getCardName(w, o)
    \/ \E w \in Toggler : ToggleNewStatus(w)
    \/ \E w \in Toggler, e \in DbErrorKinds : ToggleCreate(w, e)
    \/ \E w \in StatsReader, e \in DbErrorKinds : getStatsDaily(w, e)
    \/ \E w \in StatsReader, e \in DbErrorKinds : getStatsHourly(w, e)
    \/ \E w \in Workers : Finish(w)

SpecBeside == InitCalls /\ [][NextBeside]_vars

(***************************************************************************)
(* The routes behind rateLimitMiddleware, within one minute: requests of   *)
(* two clients are served one at a time, each first by the middleware and, *)
(* when it calls c.Next(), by the handler of its route.                    *)
(***************************************************************************)
\* worker w has passed the middleware with a request for route
Admitted(w, route) == pc[w] = "c.Next" /\ req[w].route = route

NextRate ==
    \/ \E w \in Sequential, client \in Clients, route \in Routes :
          rateLimitMiddleware(w, client, route)
    \/ \E w \in Sequential, key \in Keys, body \in Bodies :
          Admitted(w, "POST /toggle") /\ ToggleBegin(w, key, body)
    \/ \E w \in Sequential, e \in DbErrorKinds : ToggleGetLatest(w, e)
    \/ \E w \in Sequential : ToggleCooldown(w)
    \/ \E w \in Sequential, o \in {"unreachable", "non-200", "unreadable", "name"} :
          getCardName(w, o)
    \/ \E w \in Sequential : ToggleNewStatus(w)
    \/ \E w \in Sequential, e \in DbErrorKinds : ToggleCreate(w, e)
    \/ \E w \in Sequential, e \in DbErrorKinds :
          Admitted(w, "GET /status") /\ getStatus(w, e)
    \/ \E w \in Sequential, e \in DbErrorKinds :
          Admitted(w, "GET /spaceapi.json") /\ getSpaceAPI(w, e)
    \/ \E w \in Sequential, e \in DbErrorKinds :
          Admitted(w, "GET /stats") /\ getStatsDaily(w, e)
    \/ \E w \in Sequential, e \in DbErrorKinds : getStatsHourly(w, e)
    \/ \E w \in Sequential : Finish(w)

SpecRate == Init /\ [][NextRate]_vars

(***************************************************************************)
(* internal/config: ValidateAndSetDefaults, applied to the values of the   *)
(* flags before the application is built.  The strings the function looks  *)
(* into are sequences of characters.                                       *)
(***************************************************************************)
Digits == <<"0", "1", "2", "3", "4", "5", "6", "7", "8", "9">>

IsDigit(c) == \E i \in 1..Len(Digits) : Digits[i] = c

IsLetter(c) ==
    c \in {"a", "b", "c", "d", "e", "h", "i", "k", "l", "n", "p", "s", "t",
           "v", "x"}

\* the character c, n times
Repeat(c, n) == [i \in 1..n |-> c]

\* s[from..], the rest of s from position from on
From(s, from) == SubSeq(s, from, Len(s))

\* s is a above b, for sequences of digits of one length
RECURSIVE Above(_, _)
Above(a, b) ==
    IF a = <<>> THEN FALSE
    ELSE LET Value(c) == CHOOSE i \in 1..Len(Digits) : Digits[i] = c
         IN \/ Value(a[1]) > Value(b[1])
            \/ a[1] = b[1] /\ Above(Tail(a), Tail(b))

RECURSIVE TrimZeros(_)
TrimZeros(s) == IF s # <<>> /\ s[1] = "0" THEN TrimZeros(Tail(s)) ELSE s

\* the digits of 1<<63 - 1, the largest int of a 64 bit build
MaxInt ==
    <<"9", "2", "2", "3", "3", "7", "2", "0", "3", "6", "8", "5", "4", "7",
      "7", "5", "8", "0", "7">>

\* the digits of 1<<63, the magnitude of the smallest int
MinIntMagnitude == [MaxInt EXCEPT ![Len(MaxInt)] = "8"]

\* the error of strconv.Atoi(s): an optional sign, then one digit or more,
\* of a value within the range of int
Atoi(s) ==
    LET signed == s # <<>> /\ s[1] \in {"+", "-"}
        digits == IF signed THEN Tail(s) ELSE s
        least == TrimZeros(digits)
        limit == IF signed /\ s[1] = "-" THEN MinIntMagnitude ELSE MaxInt
    IN IF digits = <<>> \/ \E i \in 1..Len(digits) : ~IsDigit(digits[i])
       THEN "ErrSyntax"
       ELSE IF \/ Len(least) > Len(limit)
               \/ Len(least) = Len(limit) /\ Above(least, limit)
       THEN "ErrRange"
       ELSE "nil"

\* the bytes of the UTF-8 encoding of a character
Utf8Len(c) == IF c = "U+00E9" THEN 2 ELSE 1

\* len(s) of a Go string: its length in bytes
RECURSIVE ByteLen(_)
ByteLen(s) == IF s = <<>> THEN 0 ELSE Utf8Len(s[1]) + ByteLen(Tail(s))

\* strings.Index(s, c) for a character c, from 1; 0 when c is not in s
IndexOf(s, c) ==
    IF \E i \in 1..Len(s) : s[i] = c
    THEN CHOOSE i \in 1..Len(s) : s[i] = c /\ \A j \in 1..(i - 1) : s[j] # c
    ELSE 0

\* strings.Split(s, ",")
RECURSIVE Split(_)
Split(s) ==
    LET i == IndexOf(s, ",")
    IN IF i = 0 THEN <<s>>
       ELSE <<SubSeq(s, 1, i - 1)>> \o Split(From(s, i + 1))

\* getScheme of net/url: the scheme and the rest, or an error
RECURSIVE getScheme(_, _)
getScheme(rawURL, i) ==
    IF i > Len(rawURL) THEN [scheme |-> <<>>, rest |-> rawURL, err |-> "nil"]
    ELSE IF IsLetter(rawURL[i]) THEN getScheme(rawURL, i + 1)
    ELSE IF IsDigit(rawURL[i]) \/ rawURL[i] \in {"+", "-", "."}
    THEN IF i = 1
         THEN [scheme |-> <<>>, rest |-> rawURL, err |-> "nil"]
         ELSE getScheme(rawURL, i + 1)
    ELSE IF rawURL[i] = ":"
    THEN IF i = 1
         THEN [scheme |-> <<>>, rest |-> <<>>,
               err |-> "missing protocol scheme"]
         ELSE [scheme |-> SubSeq(rawURL, 1, i - 1),
               rest |-> From(rawURL, i + 1), err |-> "nil"]
    ELSE [scheme |-> <<>>, rest |-> rawURL, err |-> "nil"]

\* s up to the first "/" (strings.Cut(s, "/"))
BeforeSlash(s) ==
    LET i == IndexOf(s, "/") IN IF i = 0 THEN s ELSE SubSeq(s, 1, i - 1)

\* validOptionalPort: nothing, or a colon and digits
validOptionalPort(port) ==
    \/ port = <<>>
    \/ port[1] = ":" /\ \A i \in 2..Len(port) : IsDigit(port[i])

\* parseHost: the port after the last colon is checked, and the host may
\* hold no character that has to be escaped
parseHost(host) ==
    LET colons == {i \in 1..Len(host) : host[i] = ":"}
        last == CHOOSE i \in colons : \A j \in colons : j <= i
    IN IF colons # {} /\ ~validOptionalPort(From(host, last))
       THEN "invalid port"
       ELSE IF \E i \in 1..Len(host) :
                  ~(IsLetter(host[i]) \/ IsDigit(host[i])
                       \/ host[i] \in {":", "-", ".", "*", "+"})
       THEN "invalid character in host name"
       ELSE "nil"

\* url.Parse(rawURL), for a text without "#", "?", "@", "%" and "[": the
\* scheme, the host and the error
Parse(rawURL) ==
    LET s == getScheme(rawURL, 1)
        NoURL(e) == [Scheme |-> <<>>, Host |-> <<>>, err |-> e]
    IN IF s.err # "nil" THEN NoURL(s.err)
       ELSE IF s.rest = <<>> \/ s.rest[1] # "/"
       THEN IF s.scheme # <<>>
            THEN [Scheme |-> s.scheme, Host |-> <<>>, err |-> "nil"]
            ELSE IF IndexOf(BeforeSlash(s.rest), ":") # 0
            THEN NoURL("first path segment in URL cannot contain colon")
            ELSE NoURL("nil")
       ELSE IF Len(s.rest) >= 2 /\ s.rest[2] = "/"
       THEN LET authority == BeforeSlash(From(s.rest, 3))
            IN IF parseHost(authority) # "nil"
               THEN NoURL(parseHost(authority))
               ELSE [Scheme |-> s.scheme, Host |-> authority, err |-> "nil"]
       ELSE [Scheme |-> s.scheme, Host |-> <<>>, err |-> "nil"]

\* mutant: an origin needs a scheme only
Accepted_SchemeOnly(origin) ==
    LET u == Parse(origin) IN u.err = "nil" /\ u.Scheme # <<>>

\* err == nil && u.Scheme != "" && u.Host != ""
Accepted(origin) ==
    LET u == Parse(origin)
    IN u.err = "nil" /\ u.Scheme # <<>> /\ u.Host # <<>>

parseAndValidateOrigins(origins) ==
    IF origins = <<>> THEN <<>> ELSE SelectSeq(Split(origins), Accepted)

\* the Config returned, or the value the function panics with
ValidateAndSetDefaults(cfg) ==
    IF Atoi(cfg.Port) # "nil"
    THEN [panic |-> "invalid port number"]
    ELSE IF ByteLen(cfg.APIKey) < 16 /\ ~cfg.Debug
    THEN [panic |-> "API key must be at least 16 characters in production"]
    ELSE [cfg EXCEPT
            !.AllowedOrigins = parseAndValidateOrigins(cfg.AllowedOriginsStr),
            !.DatabasePath = IF @ = "" THEN "database/sede.db" ELSE @]

\* values of the flag port
Ports ==
    {<<"8", "0", "8", "0">>, <<"i", "n", "v", "a", "l", "i", "d">>, <<>>,
     <<"8", "0", "a">>, <<"+", "8", "0">>, <<"-", "1">>, Repeat("9", 20),
     MaxInt, MinIntMagnitude}

\* values of the flag api-key: of 5, 15 and 16 characters of one byte, of
\* 8 characters of two bytes, and none
APIKeys ==
    {<<"s", "h", "o", "r", "t">>, Repeat("k", 15), Repeat("k", 16),
     Repeat("U+00E9", 8), <<>>}

\* origins: with a scheme and a host; with a port; without a scheme; after
\* a space; with a scheme and no "//"; with "//" and no scheme; with a
\* path; with a space in the host; with nothing after "//"; "*"; nothing
Origins ==
    <<<<"h", "t", "t", "p", ":", "/", "/", "a", ".", "b">>,
      <<"h", "t", "t", "p", "s", ":", "/", "/", "c", ":", "3", "0">>,
      <<"a", "-", "b">>,
      <<" ", "h", "t", "t", "p", ":", "/", "/", "a", ".", "b">>,
      <<"h", "t", "t", "p", ":", "a", ".", "b">>,
      <<"/", "/", "a", ".", "b">>,
      <<"h", "t", "t", "p", ":", "/", "/", "a", ".", "b", "/", "x">>,
      <<"h", "t", "t", "p", ":", "/", "/", "a", " ", "b">>,
      <<"h", "t", "t", "p", ":", "/", "/">>,
      <<"*">>,
      <<>>>>

\* the texts of the list, with a comma between them
RECURSIVE Join(_)
Join(list) ==
    IF list = <<>> THEN <<>>
    ELSE IF Len(list) = 1 THEN list[1]
    ELSE list[1] \o <<",">> \o Join(Tail(list))

\* values of the flag allowed-origins
OriginLists ==
    UNION {[1..n -> {Origins[i] : i \in 1..Len(Origins)}] : n \in 0..MaxOrigins}

\* the value no flag sets: AllowedOrigins before the call, the nil slice
Nil == <<>>

\* cfg as the flags leave it: every port and key with at most one origin,
\* and every list of origins with a port and a key of each kind
Flags ==
    {[Port |-> port, APIKey |-> key, Debug |-> debug, AllowedOrigins |-> Nil,
      AllowedOriginsStr |-> Join(list), HashAPIKey |-> TRUE,
      DatabasePath |-> path] :
        port \in Ports, key \in APIKeys, debug \in BOOLEAN,
        list \in {l \in OriginLists : Len(l) <= 1},
        path \in {"", "custom/path.db"}}
    \cup
    {[Port |-> port, APIKey |-> key, Debug |-> debug, AllowedOrigins |-> Nil,
      AllowedOriginsStr |-> Join(list), HashAPIKey |-> TRUE,
      DatabasePath |-> path] :
        port \in {<<"8", "0", "8", "0">>, <<"8", "0", "a">>},
        key \in {Repeat("k", 15), Repeat("k", 16)}, debug \in BOOLEAN,
        list \in OriginLists, path \in {"", "custom/path.db"}}

InitConfig ==
    \E cfg \in Flags :
        Loaded(cfg, StartTime) /\ runServer = "ValidateAndSetDefaults"

\* cfg = config.ValidateAndSetDefaults(cfg)
initConfig ==
    /\ runServer = "ValidateAndSetDefaults"
    /\ config' = ValidateAndSetDefaults(config)
    /\ runServer' = IF "panic" \in DOMAIN config' THEN "panic" ELSE "NewApp"
    /\ UNCHANGED <<sede_statuses, clock, pc, req, ctx, locals, resp, readLen,
                   created, appendLog, notifications, statistics, rateLimiter,
                   esphome, shutdown>>

NextConfig == initConfig

SpecConfig == InitConfig /\ [][NextConfig]_vars

(***************************************************************************)
(* Properties                                                              *)
(***************************************************************************)
Responded(w) == pc[w] = "done"

IsToggle(w) == req[w].route = "POST /toggle"

\* the request was admitted by authMiddleware and its body was bound
WellFormed(w) == authMiddleware(req[w].apiKey) /\ ShouldBindJSON(req[w].body)

\* no repository call and no card manager call of the request has failed
NoFailure(w) ==
    /\ err[w] \in {"nil", "ErrRecordNotFound"}
    /\ cardName[w] \notin {"unreachable", "non-200"}

\* the toggle found the table empty when it read the latest row
ReadEmpty(w) == IsToggle(w) /\ readLen[w] = 0

\* the toggles that inserted the rows each arrived at least cooldownPeriod
\* after the timestamp of the row inserted before
Spaced == \A j \in 1..Len(sede_statuses) : appendLog[j].spaced

Abs(x) == IF x < 0 THEN -x ELSE x

\* C1: from an empty table, toggles that each arrive at least cooldownPeriod
\* after the previous accepted toggle are all accepted (a toggle that arrives
\* that long after the timestamp of the latest row, or finds no row, answers
\* 200 unless the store or the card manager fails), and the states they
\* return alternate true, false, true, ... starting with true.
C1_SpacedTogglesAlternate ==
    /\ \A w \in Workers :
          ( /\ Responded(w) /\ IsToggle(w) /\ WellFormed(w) /\ NoFailure(w)
            /\ readLen[w] >= 0
            /\ \/ readLen[w] = 0
               \/ ctx[w] - currentStatus[w].Timestamp >= cooldownPeriod )
          => /\ resp[w].code = 200
             /\ created[w] # {}
    /\ Spaced =>
          \A i \in 1..Len(sede_statuses) :
              /\ appendLog[i].returned = (i % 2 = 1)
              /\ sede_statuses[i].IsOpen = (i % 2 = 1)

\* three spaced toggles have been accepted and the third has just answered
C1_Witness ==
    /\ Len(sede_statuses) = 3
    /\ Spaced
    /\ \E w \in Workers :
          /\ Responded(w) /\ IsToggle(w) /\ resp[w].code = 200
          /\ created[w] = {3}
          /\ resp[w].body.isOpen = TRUE

\* C2: a toggle whose cooldown check finds less than cooldownPeriod elapsed
\* since the timestamp of the latest row is answered 429 and the table keeps
\* the same rows, also when the rejected request is retired.
C2_CooldownRejects ==
    [][\A w \in Workers :
         /\ ( /\ pc[w] = "cooldown" /\ pc'[w] # "cooldown"
              /\ clock - currentStatus[w].Timestamp < cooldownPeriod )
            => /\ pc'[w] = "done"
               /\ resp'[w].code = 429
               /\ sede_statuses' = sede_statuses
         /\ ( /\ Responded(w) /\ IsToggle(w) /\ resp[w].code = 429
              /\ pc'[w] # pc[w] )
            => /\ pc'[w] = "idle"
               /\ sede_statuses' = sede_statuses]_vars

\* a toggle has been rejected with 429 one tick short of the cooldown
C2_Witness ==
    \E w \in Workers :
        /\ Responded(w) /\ IsToggle(w) /\ resp[w].code = 429
        /\ elapsed[w] = cooldownPeriod - 1
        /\ currentStatus[w].ID # 0
        /\ created[w] = {}

\* C3: a toggle for which time.Since(latest.Timestamp) is exactly
\* cooldownPeriod passes the cooldown check: it is never answered 429, and
\* it answers 200 with a new row unless the store or the card manager fails.
C3_BoundaryAccepted ==
    \A w \in Workers :
        (IsToggle(w) /\ elapsed[w] = cooldownPeriod)
        => /\ resp[w].code # 429
           /\ (Responded(w) /\ NoFailure(w))
              => (resp[w].code = 200 /\ created[w] # {})

\* a toggle checked exactly cooldownPeriod after the latest row answered 200
C3_Witness ==
    \E w \in Workers :
        /\ Responded(w) /\ IsToggle(w) /\ elapsed[w] = cooldownPeriod
        /\ currentStatus[w].ID # 0
        /\ resp[w].code = 200
        /\ resp[w].body.isOpen = ~currentStatus[w].IsOpen

\* C4: a toggle that finds the table empty is not rejected by the cooldown
\* check, builds a row with IsOpen = true and, unless the store or the card
\* manager fails, inserts exactly that one row and answers {isOpen: true}.
C4_FirstToggleOpens ==
    \A w \in Workers :
        ReadEmpty(w)
        => /\ resp[w].code # 429
           /\ pc[w] \in {"CreateStatus", "done"} /\ NoFailure(w)
              => newStatus[w].IsOpen = TRUE
           /\ (Responded(w) /\ NoFailure(w))
              => /\ resp[w].code = 200
                 /\ resp[w].body.isOpen = TRUE
                 /\ Cardinality(created[w]) = 1
                 /\ \A id \in created[w] : sede_statuses[id].IsOpen = TRUE

\* a toggle on the empty table has answered 200 {isOpen: true}
C4_Witness ==
    \E w \in Workers :
        /\ ReadEmpty(w) /\ Responded(w)
        /\ resp[w].code = 200 /\ resp[w].body.isOpen = TRUE
        /\ created[w] = {1}

\* C5: two rows whose timestamps are less than cooldownPeriod apart come
\* only from toggles that raced: the one inserted later had read the latest
\* row before the other was inserted.  (That such a race happens, with both
\* toggles reading the same latest row and inserting the same IsOpen, is
\* the witness.)
C5_CloseRowsComeFromARace ==
    \A i, j \in 1..Len(sede_statuses) :
        ( /\ i < j
          /\ Abs(sede_statuses[i].Timestamp - sede_statuses[j].Timestamp)
                < cooldownPeriod )
        => appendLog[j].readLen < i

\* two toggles read the same latest row, both passed the cooldown check and
\* both inserted: two rows less than cooldownPeriod apart with equal IsOpen
C5_Witness ==
    \E i, j \in 1..Len(sede_statuses) :
        /\ i < j
        /\ appendLog[i].readLen = appendLog[j].readLen
        /\ appendLog[i].readLen >= 1
        /\ Abs(sede_statuses[i].Timestamp - sede_statuses[j].Timestamp)
              < cooldownPeriod
        /\ sede_statuses[i].IsOpen = sede_statuses[j].IsOpen

\* C6: a toggle answers 200 with a state if and only if it has inserted
\* exactly one row, which carries that state; a toggle that answers anything
\* else, or has not answered yet, has inserted nothing.
C6_SuccessIffAppended ==
    \A w \in Workers :
        IsToggle(w)
        => /\ Responded(w)
              => /\ resp[w].code \in {200, 400, 401, 429, 500, 502, 504}
                 /\ (resp[w].code = 200) <=> (Cardinality(created[w]) = 1)
                 /\ resp[w].code # 200 => created[w] = {}
                 /\ resp[w].code = 200 =>
                       \A id \in created[w] :
                           /\ id \in 1..Len(sede_statuses)
                           /\ sede_statuses[id].IsOpen = resp[w].body.isOpen
           /\ ~Responded(w) => created[w] = {}

\* a toggle has failed in the store after passing the cooldown check
C6_Witness ==
    \E w \in Workers :
        /\ Responded(w) /\ IsToggle(w)
        /\ resp[w].code \in {500, 504}
        /\ newStatus[w].Timestamp # ZeroTime
        /\ created[w] = {}

\* C7: when the card manager cannot be reached or answers with an error,
\* the toggle is answered 502 and has inserted nothing.
C7_LookupFailureAborts ==
    \A w \in Workers :
        (IsToggle(w) /\ cardName[w] \in {"unreachable", "non-200"})
        => /\ Responded(w)
           /\ resp[w].code = 502
           /\ created[w] = {}
           /\ newStatus[w] = ZeroStatus

\* a toggle that had passed the cooldown check was aborted by a non-200 answer
C7_Witness ==
    \E w \in Workers :
        /\ IsToggle(w) /\ cardName[w] = "non-200"
        /\ elapsed[w] >= cooldownPeriod
        /\ Len(sede_statuses) >= 1

\* C8: every step keeps every row of the table as it is, in its place.
C8_AppendOnly ==
    [][/\ Len(sede_statuses') >= Len(sede_statuses)
       /\ \A i \in 1..Len(sede_statuses) :
             sede_statuses'[i] = sede_statuses[i]]_vars

\* the table holds rows inserted by different requests
C8_Witness ==
    /\ Len(sede_statuses) >= 2
    /\ \E w \in Workers : Responded(w) /\ created[w] = {Len(sede_statuses)}

\* C9: no step of GET /status, GET /stats or GET /spaceapi.json changes the
\* table; a row is inserted only by the CreateStatus step of a toggle that
\* then answers 200.
C9_ReadOnlyRoutes ==
    [][/\ \A w \in Workers :
             ( /\ req[w].route \in PublicRoutes \/ req'[w].route \in PublicRoutes
               /\ pc'[w] # pc[w] )
             => sede_statuses' = sede_statuses
       /\ sede_statuses' # sede_statuses
          => \E w \in Workers :
                /\ IsToggle(w) /\ pc[w] = "CreateStatus"
                /\ pc'[w] = "done" /\ resp'[w].code = 200]_vars

\* GET /stats has answered 200 with the statistics of a table of two rows
C9_Witness ==
    \E w \in Workers :
        /\ Responded(w) /\ req[w].route = "GET /stats"
        /\ resp[w].code = 200
        /\ Len(resp[w].body) = 1
        /\ Len(sede_statuses) >= 2

\* the rows the table held when w read the latest row
RowsRead(w) == {sede_statuses[i] : i \in 1..readLen[w]}

\* C10: on a non-empty table GetLatestStatus returns a row of the table
\* whose timestamp is the maximum, and GET /status answers 200 with the
\* IsOpen of such a row, whatever the order of insertion.
C10_LatestIsMaxTimestamp ==
    /\ sede_statuses # <<>>
       => LET r == GetLatestStatus(sede_statuses)
          IN /\ r.err = "nil"
             /\ r.status \in Rows(sede_statuses)
             /\ \A x \in Rows(sede_statuses) : x.Timestamp <= r.status.Timestamp
    /\ \A w \in Workers :
          ( /\ Responded(w) /\ req[w].route = "GET /status"
            /\ readLen[w] >= 1 )
          => /\ resp[w].code = 200
             /\ \E r \in RowsRead(w) :
                   /\ \A x \in RowsRead(w) : x.Timestamp <= r.Timestamp
                   /\ resp[w].body = FormatBool(r.IsOpen)

\* GET /status has answered from a table whose latest row is not the row
\* inserted last
C10_Witness ==
    \E w \in Workers :
        /\ Responded(w) /\ req[w].route = "GET /status" /\ resp[w].code = 200
        /\ readLen[w] >= 2
        /\ \E i \in 1..readLen[w] :
              /\ i < readLen[w]
              /\ sede_statuses[i].Timestamp > sede_statuses[readLen[w]].Timestamp
              /\ currentStatus[w] = sede_statuses[i]

\* GET /status has read the table and found it empty
StatusOnEmpty(w) ==
    Responded(w) /\ req[w].route = "GET /status" /\ readLen[w] = 0

\* C11 as stated: GET /status on an empty table answers 200 with the closed
\* state, "false".
C11_EmptyStatusIsClosed ==
    \A w \in Workers :
        StatusOnEmpty(w) => (resp[w].code = 200 /\ resp[w].body = "false")

\* C11, amended: on an empty table GetLatestStatus returns no row
\* (ErrRecordNotFound and the zero SedeStatus); GET /status does not take
\* that for "closed": it answers with the error of handleDatabaseError, never
\* with a state, and inserts nothing.
C11_EmptyStatusIsAnError ==
    /\ sede_statuses = <<>>
       => GetLatestStatus(sede_statuses)
             = [status |-> ZeroStatus, err |-> "ErrRecordNotFound"]
    /\ \A w \in Workers :
          StatusOnEmpty(w)
          => /\ err[w] = "ErrRecordNotFound"
             /\ resp[w].code = handleDatabaseError(err[w])
             /\ resp[w].code \notin {0, 200}
             /\ resp[w].body = [error |-> "Internal server error"]
             /\ sede_statuses = <<>>

\* GET /status has answered with an error body on the empty table
C11_Witness ==
    \E w \in Workers :
        /\ StatusOnEmpty(w)
        /\ currentStatus[w] = ZeroStatus
        /\ resp[w].body = [error |-> "Internal server error"]

\* C12: GET /status on an empty table answers 500.
C12_EmptyStatusIs500 ==
    \A w \in Workers : StatusOnEmpty(w) => resp[w].code = 500

\* GET /status has answered 500 on the empty table while the clock was still
\* at the start (no call had timed out)
C12_Witness ==
    \E w \in Workers :
        /\ StatusOnEmpty(w) /\ resp[w].code = 500
        /\ sede_statuses = <<>> /\ clock = StartTime

\* the X-API-KEY header is non-empty and equals the configured API key
KeyMatches(w) == req[w].apiKey # "" /\ req[w].apiKey = config.APIKey

\* C13: in the plain and in the hashed mode, a POST /toggle gets past
\* authMiddleware (it is bound, or it is somewhere in toggleStatus, or it has
\* an answer other than 401) if and only if its X-API-KEY header is non-empty
\* and equals the configured key; every other one is answered 401 at once,
\* having read and inserted nothing.
C13_ToggleOnlyWithKey ==
    \A w \in Workers :
        (pc[w] # "idle" /\ IsToggle(w))
        => /\ (resp[w].code # 401) <=> KeyMatches(w)
           /\ ~KeyMatches(w)
              => /\ Responded(w)
                 /\ resp[w].code = 401
                 /\ readLen[w] = -1
                 /\ created[w] = {}
                 /\ newStatus[w] = ZeroStatus

\* in the plain mode a request with the right key has inserted a row and a
\* later one with a wrong key has been refused
C13_Witness ==
    /\ ~config.HashAPIKey /\ config.APIKey # ""
    /\ Len(sede_statuses) >= 1
    /\ \E w \in Workers :
          /\ Responded(w) /\ IsToggle(w)
          /\ req[w].apiKey = "invalid-key" /\ resp[w].code = 401

\* every notification belongs to a row of the table and carries its state,
\* no row has two, and rows have one each exactly when the sink is initialized
NotificationsMatchRows ==
    /\ \A i \in 1..Len(notifications) :
          /\ notifications[i].row \in 1..Len(sede_statuses)
          /\ notifications[i].msg.action =
                IF sede_statuses[notifications[i].row].IsOpen
                THEN "aperta" ELSE "chiusa"
    /\ \A i, j \in 1..Len(notifications) :
          notifications[i].row = notifications[j].row => i = j
    /\ Len(notifications) = IF IsInitialized THEN Len(sede_statuses) ELSE 0

\* C14: a notification is started only in the step that inserts a row, one
\* for that row and only when the sink is initialized; no step of a toggle
\* that is rejected or fails starts one; sending the response and retiring
\* the request leave a running notification running; and the step in which
\* a notification succeeds or fails changes neither the table nor any
\* response (one that never completes takes no step at all).
C14_NotifyAfterAppend ==
    [][/\ NotificationsMatchRows'
       /\ Len(notifications') > Len(notifications)
          => /\ Len(sede_statuses') = Len(sede_statuses) + 1
             /\ Len(notifications') = Len(notifications) + 1
             /\ notifications'[Len(notifications')].row = Len(sede_statuses')
             /\ notifications'[Len(notifications')].state = "running"
             /\ \E w \in Workers :
                   /\ pc[w] = "CreateStatus" /\ pc'[w] = "done"
                   /\ resp'[w] = [code |-> 200,
                                  body |-> [isOpen |-> newStatus[w].IsOpen]]
       /\ (\E w \in Workers : pc'[w] # pc[w])
          => \A i \in 1..Len(notifications) :
                notifications'[i] = notifications[i]
       /\ (\E i \in 1..Len(notifications) :
              notifications'[i] # notifications[i])
          => /\ sede_statuses' = sede_statuses
             /\ resp' = resp /\ pc' = pc]_vars

\* the toggles of two rows have been answered and retired; the notification
\* of the first has failed and that of the second is still running
C14_Witness ==
    /\ Len(sede_statuses) = 2 /\ Len(notifications) = 2
    /\ notifications[1].state = "failed"
    /\ notifications[2].state = "running"
    /\ \A w \in Workers : pc[w] = "idle"

\* GET /stats has answered 200 with the weekly statistics
StatsAnswered(w) ==
    Responded(w) /\ req[w].route = "GET /stats" /\ resp[w].code = 200

\* The rows the two queries of GetWeeklyStats select at the time of the
\* request: those from 00:00 of the day 90 days before today on.
InWindow(r) == r.Timestamp >= (clock \div TicksPerDay - 90) * TicksPerDay

\* the rows of the window that fall on the weekday named day
OnDay(day) ==
    {r \in Rows(sede_statuses) :
        InWindow(r) /\ daysOrder[Weekday(r.Timestamp) + 1] = day}

\* the rows of the window that fall on that weekday in the hour named hour
InHour(day, hour) ==
    {r \in OnDay(day) : HourNames[HourOf(r.Timestamp) + 1] = hour}

\* the fraction p is the share of open rows among the rows of bucket
IsOpenShare(p, bucket) ==
    /\ bucket # {}
    /\ p[2] > 0 /\ p[1] >= 0 /\ p[1] <= p[2]
    /\ p[1] * Cardinality(bucket)
          = p[2] * Cardinality({r \in bucket : r.IsOpen})
    /\ (\A r \in bucket : r.IsOpen) => p = <<1, 1>>
    /\ (\A r \in bucket : ~r.IsOpen) => p = <<0, 1>>

\* C15: in every answer of GET /stats, the dailyProbability of each weekday
\* is (open rows of the window on that weekday) / (rows of the window on
\* that weekday), each hourly probability is the same share over the rows of
\* that weekday and hour, every value lies in [0, 1], and it is exactly 1
\* (or 0) when all rows of the bucket are open (or closed).
C15_ProbabilityIsOpenShare ==
    \A w \in Workers :
        StatsAnswered(w)
        => \A i \in 1..Len(resp[w].body) :
              LET ws == resp[w].body[i]
              IN /\ IsOpenShare(ws.DailyProbability, OnDay(ws.Day))
                 /\ \A j \in 1..Len(ws.Hourly) :
                       IsOpenShare(ws.Hourly[j].Probability,
                                   InHour(ws.Day, ws.Hourly[j].Hour))

\* the scenario open at 10, closed at 14 on one weekday and open at 11 on
\* the next: 1/2 with hours 10 -> 1 and 14 -> 0, then 1 with hour 11 -> 1
C15_Witness ==
    \E w \in Workers :
        /\ StatsAnswered(w)
        /\ resp[w].body =
              << [Day |-> "Friday", DailyProbability |-> <<1, 2>>,
                  Hourly |-> << [Hour |-> "10", Probability |-> <<1, 1>>],
                                [Hour |-> "14", Probability |-> <<0, 1>>] >>],
                 [Day |-> "Saturday", DailyProbability |-> <<1, 1>>,
                  Hourly |-> << [Hour |-> "11", Probability |-> <<1, 1>>] >>] >>

\* the weekdays an answer of GET /stats reports
DaysReported(body) == {body[i].Day : i \in 1..Len(body)}

\* "09" .. "21"
OpeningHours == {HourNames[h + 1] : h \in 9..21}

StatisticsReturned == statistics.err = "nil"

\* the UTC calendar day of a timestamp
DayOf(t) == t \div TicksPerDay

\* the rows of the trailing 30 days: not older than 30 days, not after now
Trailing30 ==
    {r \in Rows(sede_statuses) :
        /\ r.Timestamp >= clock - analysisDays * TicksPerDay
        /\ r.Timestamp <= clock}

\* C17: when all the rows of the table fall on one day of the trailing 30
\* days, the probability GetStatistics reports for that day is
\* (open rows) / (rows), a value in [0, 1].
C17_DailyProbabilityIsOpenShare ==
    ( /\ StatisticsReturned
      /\ sede_statuses # <<>>
      /\ Rows(sede_statuses) = Trailing30
      /\ \A r1, r2 \in Rows(sede_statuses) :
            DayOf(r1.Timestamp) = DayOf(r2.Timestamp) )
    => /\ Len(statistics.dailyStats) = 1
       /\ IsOpenShare(statistics.dailyStats[1].Probability,
                      Rows(sede_statuses))

\* C18: GetStatistics returns exactly one entry for each UTC calendar day
\* on which a row of the trailing 30 days falls, in ascending order of date,
\* and no entry for any other day.
C18_OneEntryPerDay ==
    StatisticsReturned
    => LET days == {DayOf(r.Timestamp) : r \in Trailing30}
       IN /\ Len(statistics.dailyStats) = Cardinality(days)
          /\ {statistics.dailyStats[i].Date :
                 i \in 1..Len(statistics.dailyStats)} = days
          /\ \A i, j \in 1..Len(statistics.dailyStats) :
                i < j => statistics.dailyStats[i].Date
                           < statistics.dailyStats[j].Date

\* what GetWeeklyStats returns for a table when both queries succeed
WeeklyOf(table) ==
    MergeWeekly(DailyQuery(table, clock), HourlyQuery(table, clock))

\* the row lies in the 90 days that end at now
InTrailing90(r) ==
    r.Timestamp >= clock - 90 * TicksPerDay /\ r.Timestamp <= clock

\* C19 as stated: an answer of GET /stats is the one the table gives once
\* every row older than 90 days or dated in the future is removed from it.
C19_OnlyTrailing90Days ==
    \A w \in Workers :
        StatsAnswered(w)
        => resp[w].body = WeeklyOf(SelectSeq(sede_statuses, InTrailing90))

\* C19: an answer of GET /stats is the one the table gives once every row
\* dated before 00:00 UTC of the day 90 days before today is removed from
\* it; rows of that day before the hour of now, and rows dated in the
\* future, stay in the table and count.
C19_OnlyRowsSinceCutoffDate ==
    \A w \in Workers :
        StatsAnswered(w)
        => resp[w].body = WeeklyOf(SelectSeq(sede_statuses, InWindow))

\* the table holds a row of the day before the cutoff date, a row of the
\* cutoff date more than 90 days old and a row of tomorrow: the answer
\* counts the last two (both Saturdays at 10, one open and one closed) and
\* not the first (a Friday)
C19_Witness ==
    \E w \in Workers :
        /\ StatsAnswered(w)
        /\ \E r \in Rows(sede_statuses) : r.Timestamp = At(109, 10)
        /\ \E r \in Rows(sede_statuses) :
              r.Timestamp = At(110, 10) /\ r.IsOpen
        /\ \E r \in Rows(sede_statuses) :
              r.Timestamp = At(201, 10) /\ ~r.IsOpen
        /\ resp[w].body =
              <<[Day |-> "Saturday", DailyProbability |-> <<1, 2>>,
                 Hourly |-> <<[Hour |-> "10", Probability |-> <<1, 2>>]>>]>>

\* the place of a weekday name in the week that starts on Sunday
SundayFirst(day) ==
    CHOOSE i \in 1..7 :
        <<"Sunday", "Monday", "Tuesday", "Wednesday", "Thursday", "Friday",
          "Saturday">>[i] = day

\* the hour a two-digit hour text denotes
HourNumber(hour) == (CHOOSE h \in 1..24 : HourNames[h] = hour) - 1

\* C20: in an answer of GET /stats the weekdays follow the week that starts
\* on Sunday and each occurs at most once; the hours of each weekday are in
\* ascending order and each occurs at most once.
C20_SundayFirstHoursAscending ==
    \A w \in Workers :
        StatsAnswered(w)
        => LET body == resp[w].body
           IN /\ \A i, j \in 1..Len(body) :
                    i < j => SundayFirst(body[i].Day) < SundayFirst(body[j].Day)
              /\ \A i \in 1..Len(body) :
                    \A j, k \in 1..Len(body[i].Hourly) :
                       j < k => HourNumber(body[i].Hourly[j].Hour)
                                  < HourNumber(body[i].Hourly[k].Hour)

\* a Friday row at 14 is inserted before a Friday row at 10 and a Sunday
\* row: the answer lists Sunday before Friday, and Friday's hours 10, 14
C20_Witness ==
    \E w \in Workers :
        /\ StatsAnswered(w)
        /\ Len(sede_statuses) = 3
        /\ sede_statuses[1].Timestamp = At(193, 14)
        /\ sede_statuses[2].Timestamp = At(186, 10)
        /\ sede_statuses[3].Timestamp = At(195, 21)
        /\ Len(resp[w].body) = 2
        /\ resp[w].body[1].Day = "Sunday"
        /\ resp[w].body[2].Day = "Friday"
        /\ Len(resp[w].body[2].Hourly) = 2
        /\ resp[w].body[2].Hourly[1].Hour = "10"
        /\ resp[w].body[2].Hourly[2].Hour = "14"

\* this step is a call of GetStatistics that returns without an error
StatisticsCalled ==
    /\ \E outcome \in {"nil", "count fails", "query fails"} :
          GetStatisticsCall(outcome)
    /\ statistics'.err = "nil"

\* this step answers the toggle request of worker w with 200
ToggleAccepted(w) ==
    /\ ~Responded(w)
    /\ IsToggle(w)
    /\ pc'[w] = "done"
    /\ resp'[w].code = 200

\* C21: a call of GetStatistics that returns without an error returns as
\* totalChanges the number of rows of the whole table, whatever their
\* timestamps (0 for the empty table); and a step that accepts a toggle
\* makes that number one larger.
C21_TotalIsRowCount ==
    [][ /\ StatisticsCalled
           => statistics'.totalChanges = Len(sede_statuses)
        /\ \A w \in Workers :
              ToggleAccepted(w)
              => Len(sede_statuses') = Len(sede_statuses) + 1 ]_vars

\* the table held a row older than 90 days and a row of tomorrow, a call
\* returned 2, a toggle was accepted and a later call returned 3
C21_Witness ==
    /\ statistics.err = "nil"
    /\ statistics.totalChanges = 3
    /\ Len(sede_statuses) = 3
    /\ Len(appendLog) = 1
    /\ sede_statuses[1].Timestamp = At(109, 10)
    /\ sede_statuses[2].Timestamp = At(165, 10)
    /\ sede_statuses[3].Timestamp = StatsNow

C23_EmptyLedgerEmptyStats ==
    sede_statuses = <<>>
    => /\ \A w \in Workers :
             (Responded(w) /\ req[w].route = "GET /stats" /\ err[w] = "nil")
             => resp[w] = [code |-> 200, body |-> <<>>]
       /\ statistics.err = "nil"
             => /\ statistics.totalChanges = 0
                /\ statistics.dailyStats = <<>>

\* GetStatistics has returned from the empty table, and then a request for
\* GET /stats has been answered from it
C23_Witness ==
    /\ sede_statuses = <<>>
    /\ statistics.err = "nil"
    /\ \E w \in Workers : StatsAnswered(w)

\* worker w has answered a request for GET /spaceapi.json whose read of the
\* latest row did not fail
SpaceAPIAnswered(w) ==
    /\ Responded(w)
    /\ req[w].route = "GET /spaceapi.json"
    /\ err[w] \in {"nil", "ErrRecordNotFound"}

\* seconds since the epoch of a time of the clock (a tick is 15 seconds)
Unix(t) == 15 * t

\* C24: GET /spaceapi.json is answered 200 on the empty and on a non-empty
\* table; on the empty table its state reports open = false and the last
\* change 0, otherwise open is the IsOpen of the latest row and the last
\* change is the Unix time of that row's timestamp.
C24_SpaceAPIReportsLatest ==
    \A w \in Workers :
        SpaceAPIAnswered(w)
        => /\ resp[w].code = 200
           /\ "lastchange" \in DOMAIN resp[w].body
           /\ IF readLen[w] = 0
              THEN /\ resp[w].body.open = "false"
                   /\ resp[w].body.lastchange = 0
              ELSE /\ resp[w].body.open = FormatBool(currentStatus[w].IsOpen)
                   /\ resp[w].body.lastchange =
                         Unix(currentStatus[w].Timestamp)

\* the answer of the middleware to a request it refuses
TooManyRequests == [code |-> 429, body |-> [error |-> "rate limit exceeded"]]

\* this step is the arrival of a request of client, served by worker w
RequestOf(client, w) ==
    /\ rateLimiter'[client] # rateLimiter[client]
    /\ pc[w] = "idle"
    /\ pc'[w] # "idle"

\* the requests of all clients counted in the store after this step
RECURSIVE Total(_, _)
Total(store, keys) ==
    IF keys = {} THEN 0
    ELSE LET k == CHOOSE k \in keys : TRUE
         IN store[k].count + Total(store, keys \ {k})

\* this step refuses the request worker w serves, at once: the response is
\* written in the step of its arrival, and no handler has read or written
RefusedAtOnce(w) ==
    /\ pc'[w] = "done"
    /\ resp'[w] = TooManyRequests
    /\ readLen'[w] = -1
    /\ sede_statuses' = sede_statuses

\* C25 as stated: within a minute the requests of all clients draw on one
\* budget of 100; a request that arrives when the budget is used up is
\* refused at once with 429 and reaches no handler, and no other is refused.
C25_OneGlobalBudget ==
    [][ \A client \in Clients, w \in Workers :
          RequestOf(client, w)
          => IF Total(rateLimiter', Clients) > rateLimitRequests
             THEN RefusedAtOnce(w)
             ELSE pc'[w] = "c.Next" ]_vars

\* C25: within a minute the requests of each client address draw on a
\* budget of 100 of their own; a request that arrives when the budget of
\* its client is used up is refused at once with 429 and reaches no
\* handler, and no other request is refused.
C25_OneBudgetPerClient ==
    [][ \A client \in Clients, w \in Workers :
          RequestOf(client, w)
          => IF rateLimiter'[client].count > rateLimitRequests
             THEN RefusedAtOnce(w)
             ELSE pc'[w] = "c.Next" ]_vars

\* one client has used up its budget and its request is refused, after the
\* first request of the other client was served and appended a row
C25_Witness ==
    \E w \in Workers :
        /\ Responded(w)
        /\ resp[w] = TooManyRequests
        /\ rateLimiter["192.0.2.1"].count = rateLimitRequests + 1
        /\ rateLimiter["192.0.2.2"].count = 1
        /\ Len(sede_statuses) = 1

\* C26: when the last repository call of an answered request failed
\* because the deadline was exceeded, the answer is 504 "Database operation
\* timed out"; when it failed with another error handed to
\* handleDatabaseError, the answer is 500 "Internal server error"; and when
\* it did not fail, the answer is neither: the handler went on.
C26_TimeoutIsDistinct ==
    \A w \in Workers :
        Responded(w)
        => /\ err[w] = "DeadlineExceeded"
                => resp[w] = [code |-> 504,
                              body |-> [error |-> "Database operation timed out"]]
           /\ err[w] = "storage error"
                => resp[w] = [code |-> 500,
                              body |-> [error |-> "Internal server error"]]
           /\ err[w] = "nil" => resp[w].code \notin {500, 504}

\* a toggle read the latest row and passed the cooldown, and its insert
\* ran into the deadline
C26_Witness ==
    \E w \in Workers :
        /\ Responded(w)
        /\ IsToggle(w)
        /\ readLen[w] >= 0
        /\ elapsed[w] # NotEvaluated
        /\ err[w] = "DeadlineExceeded"
        /\ resp[w].code = 504

\* C27: a POST /toggle that carries the configured key and a body that is
\* not JSON is answered 400 "Invalid JSON", whatever the table holds and
\* also while the cooldown is active, and it has read and inserted nothing.
C27_MalformedBodyIs400 ==
    \A w \in Workers :
        ( /\ Responded(w)
          /\ IsToggle(w)
          /\ KeyMatches(w)
          /\ req[w].body = "invalid json" )
        => /\ resp[w] = [code |-> 400, body |-> [error |-> "Invalid JSON"]]
           /\ readLen[w] = -1
           /\ created[w] = {}

\* the request is answered 400 while the latest row is younger than the
\* cooldown, so that a well-formed request would be answered 429
C27_Witness ==
    \E w \in Workers :
        /\ Responded(w)
        /\ IsToggle(w)
        /\ KeyMatches(w)
        /\ req[w].body = "invalid json"
        /\ resp[w].code = 400
        /\ sede_statuses # <<>>
        /\ Since(GetLatestStatus(sede_statuses).status.Timestamp)
              < cooldownPeriod

\* the text is a number: an optional sign and then digits, at least one
Numeric(port) ==
    LET digits == IF port # <<>> /\ port[1] \in {"+", "-"}
                  THEN Tail(port) ELSE port
    IN digits # <<>> /\ \A i \in 1..Len(digits) : IsDigit(digits[i])

\* the number is one an int of 64 bits can hold
WithinInt(port) ==
    LET digits == TrimZeros(IF port[1] \in {"+", "-"} THEN Tail(port) ELSE port)
        limit == IF port[1] = "-" THEN MinIntMagnitude ELSE MaxInt
    IN \/ Len(digits) < Len(limit)
       \/ Len(digits) = Len(limit) /\ ~Above(digits, limit)

\* the text may stand in a scheme, after its first letter
InScheme(c) == IsLetter(c) \/ IsDigit(c) \/ c \in {"+", "-", "."}

\* the text may stand in a host
InHost(c) == IsLetter(c) \/ IsDigit(c) \/ c \in {"-", "."}

\* the origin is a scheme, "://" and a host, which may be followed by a
\* port and by a path
HasSchemeAndHost(origin) ==
    /\ origin # <<>>
    /\ IsLetter(origin[1])
    /\ \E i \in 2..Len(origin) :
          /\ i + 2 <= Len(origin)
          /\ origin[i] = ":" /\ origin[i + 1] = "/" /\ origin[i + 2] = "/"
          /\ \A n \in 2..(i - 1) : InScheme(origin[n])
          /\ \E j \in (i + 4)..(Len(origin) + 1) :
                /\ \A n \in (i + 3)..(j - 1) : InHost(origin[n])
                /\ \E k \in (j - 1)..Len(origin) :
                      /\ j <= k => origin[j] = ":"
                      /\ \A n \in (j + 1)..k : IsDigit(origin[n])
                      /\ k < Len(origin) => origin[k + 1] = "/"

\* this step is the call of ValidateAndSetDefaults
Validated == runServer = "ValidateAndSetDefaults" /\ runServer' # runServer

\* the call returns the configuration with Port, APIKey and Debug as they
\* were, the default DatabasePath in place of an empty one, and the
\* origins of the list that have a scheme and a host, in their order
ReturnsDefaults ==
    /\ "panic" \notin DOMAIN config'
    /\ config'.Port = config.Port
    /\ config'.APIKey = config.APIKey
    /\ config'.Debug = config.Debug
    /\ config'.DatabasePath =
          IF config.DatabasePath = "" THEN "database/sede.db"
          ELSE config.DatabasePath
    /\ config'.AllowedOrigins =
          SelectSeq(Split(config.AllowedOriginsStr), HasSchemeAndHost)

Appends == Len(sede_statuses') = Len(sede_statuses) + 1

\* the row the step appends
Appended == sede_statuses'[Len(sede_statuses')]

\* C29: every row a toggle appends has IsOpen equal to the negation of the
\* IsOpen of the row that is latest in the table at the moment of the
\* append, so rows appended one after the other always differ in IsOpen,
\* whatever the interleaving of the requests.
C29_AppendNegatesLatest ==
    [][ (Appends /\ sede_statuses # <<>>)
        => /\ Appended.IsOpen = ~GetLatestStatus(sede_statuses).status.IsOpen
           /\ Appended.IsOpen # sede_statuses[Len(sede_statuses)].IsOpen ]_vars

\* C30: only one toggle succeeds per cooldown window: whatever the
\* interleaving of the toggle requests, any two rows appended by toggle
\* have timestamps at least cooldownPeriod apart.
C30_OneTogglePerCooldownWindow ==
    \A i, j \in 1..Len(sede_statuses) :
        i < j
        => Abs(sede_statuses[i].Timestamp - sede_statuses[j].Timestamp)
              >= cooldownPeriod

\* the table as it was when the toggle that inserted row j read the latest row
TableReadBy(j) == SubSeq(sede_statuses, 1, appendLog[j].readLen)

\* no row was inserted between the read and the insert of the toggle of row j
NotOvertaken(j) == appendLog[j].readLen = j - 1

\* at this step worker w answers GET /status with 200
StatusAnswered(w) ==
    /\ pc[w] # "done" /\ pc'[w] = "done"
    /\ req'[w].route = "GET /status"
    /\ resp'[w].code = 200

\* C31: the row an accepted toggle appends has a timestamp strictly later
\* than that of the latest row the toggle read; when no other toggle
\* inserted in between it is the latest row from then on, and a GET /status
\* answered after it returns the state that toggle reported.
C31_AppendedRowBecomesLatest ==
    /\ [](\A j \in 1..Len(sede_statuses) :
            /\ appendLog[j].readLen >= 1
               => sede_statuses[j].Timestamp
                     > GetLatestStatus(TableReadBy(j)).status.Timestamp
            /\ NotOvertaken(j)
               => GetLatestStatus(SubSeq(sede_statuses, 1, j)).status
                     = sede_statuses[j])
    /\ [][\A w \in Workers :
            ( /\ StatusAnswered(w)
              /\ sede_statuses # <<>>
              /\ NotOvertaken(Len(sede_statuses)) )
            => resp'[w].body
                  = FormatBool(appendLog[Len(sede_statuses)].returned)]_vars

\* a second toggle, not overtaken, has closed the space, and a GET /status
\* after it has answered with the state it reported
C31_Witness ==
    /\ Len(sede_statuses) = 2
    /\ NotOvertaken(1) /\ NotOvertaken(2)
    /\ sede_statuses[2].Timestamp > sede_statuses[1].Timestamp
    /\ \E w \in Workers :
          /\ Responded(w) /\ req[w].route = "GET /status"
          /\ resp[w].code = 200
          /\ readLen[w] = 2
          /\ resp[w].body = FormatBool(appendLog[2].returned)
          /\ appendLog[2].returned = FALSE

\* the row appended last before toggle w read the table
LastAppendedBefore(w) == sede_statuses[readLen[w]]

\* C32: rejected toggles do not extend the cooldown: a toggle that arrives
\* at least cooldownPeriod after the timestamp of the row appended last is
\* accepted, unless the store or the card manager fails, however many
\* toggles were answered 429 in between.
C32_AcceptedAfterLastAppended ==
    \A w \in Workers :
        ( /\ Responded(w) /\ IsToggle(w) /\ WellFormed(w) /\ NoFailure(w)
          /\ readLen[w] >= 1
          /\ ctx[w] - LastAppendedBefore(w).Timestamp >= cooldownPeriod )
        => /\ resp[w].code = 200
           /\ created[w] # {}

\* worker w holds the row a call of GetLatestStatus returned
HoldsLatest(w) ==
    /\ req[w].route \in {"GET /status", "POST /toggle"}
    /\ readLen[w] >= 1
    /\ err[w] = "nil"

\* C33: when several rows share the greatest timestamp, GetLatestStatus
\* (and with it GET /status and the next toggle) returns the one inserted
\* last, the one with the highest id.
C33_TieGoesToHighestId ==
    \A w \in Workers :
        HoldsLatest(w)
        => \A i \in 1..readLen[w] :
              sede_statuses[i].Timestamp = currentStatus[w].Timestamp
              => sede_statuses[i].ID <= currentStatus[w].ID

\* the body of the request carries a cardId and a hash
CarriesBoth(w) == req[w].body = "{cardId,hash}"

\* the card manager has been contacted for the request
Contacted(w) == cardName[w] # "none"

\* the cooldown check of the request has been made and has passed
CooldownPassed(w) ==
    elapsed[w] # NotEvaluated /\ elapsed[w] >= cooldownPeriod

\* C34: the card manager is contacted only for a request that carries both
\* a cardId and a hash, and only after its cooldown check has passed; a
\* toggle without both goes from the check to the new row without
\* contacting it, and a toggle rejected by the cooldown never contacts it.
C34_LookupOnlyWithBothAfterCooldown ==
    /\ \A w \in Workers :
          IsToggle(w)
          => /\ Contacted(w) => (CarriesBoth(w) /\ CooldownPassed(w))
             /\ pc[w] = "getCardName" => (CarriesBoth(w) /\ CooldownPassed(w))
             /\ (Responded(w) /\ resp[w].code = 429) => ~Contacted(w)
             /\ ( /\ ~CarriesBoth(w) /\ CooldownPassed(w) /\ Responded(w)
                  /\ err[w] \in {"nil", "ErrRecordNotFound"} )
                => (resp[w].code = 200 /\ created[w] # {})

\* a toggle with a cardId and no hash has passed the cooldown check and
\* answered 200 without a lookup
C34_Witness ==
    \E w \in Workers :
        /\ Responded(w) /\ IsToggle(w)
        /\ req[w].body = "{cardId}"
        /\ CooldownPassed(w)
        /\ ~Contacted(w)
        /\ resp[w].code = 200
        /\ created[w] # {}

\* the weekdays of the rows the first query of the request returned
DailyDays(w) == {dailyStats[w][i].Day : i \in 1..Len(dailyStats[w])}

\* C35: in GetWeeklyStats every weekday with an hourly entry also has a
\* daily entry computed from the data, so no weekday is reported from an
\* hourly row alone with its dailyProbability left at 0; and every weekday
\* of the daily query, also one whose rows all lie outside hours 9..21 and
\* whose hourly list is empty, is reported with its dailyProbability.
C35_HourlyDaysHaveDailyEntry ==
    \A w \in Workers :
        StatsAnswered(w)
        => /\ \A k \in 1..Len(resp[w].body) :
                 resp[w].body[k].Day \in DailyDays(w)
           /\ \A i \in 1..Len(dailyStats[w]) :
                 \E k \in 1..Len(resp[w].body) :
                     /\ resp[w].body[k].Day = dailyStats[w][i].Day
                     /\ resp[w].body[k].DailyProbability
                           = dailyStats[w][i].DailyProbability

\* the button has handled the 200 response of the toggle worker w served
PressCompleted(w) ==
    /\ Responded(w) /\ IsToggle(w) /\ resp[w].code = 200
    /\ esphome.on_press = "idle"

\* C36: after the toggle request of a button press has completed with a 200
\* response, the button's sede_state, and the colour of its light (green
\* for open, red for closed), equal the IsOpen of the row the server
\* appended for that request.
C36_ButtonShowsAppendedState ==
    \A w \in Workers :
        PressCompleted(w)
        => \A id \in created[w] :
              /\ esphome.sede_state = sede_statuses[id].IsOpen
              /\ esphome.rgb_light
                    = IF sede_statuses[id].IsOpen THEN "green" ELSE "red"

\* at this step the handler worker w runs calls the repository
CallsStore(w) ==
    /\ pc[w] \in {"GetLatestStatus", "CreateStatus", "hourlyStats"}
    /\ pc'[w] # pc[w]

\* the store is closed only after srv.Shutdown has returned, and runServer
\* returns only after the goroutine that shuts down is done
ClosedAfterShutdownExitAfterClose ==
    /\ shutdown.pc \in {"sqlDB.Close", "done"}
       => shutdown.err \in {"nil", "DeadlineExceeded"}
    /\ Exited => Closed

=============================================================================
